---------------------------- MODULE Spec2Model ----------------------------
(***************************************************************************)
(* Model of the centerline (one-line) path extraction of tools/gen.py:     *)
(* binary morphology, Zhang-Suen thinning, ridge skeleton, curve polishing *)
(* (chaikin_smooth, rdp_simplify) and route planning (reorder, stitch).    *)
(*                                                                         *)
(* Masks are sets of cells <<row, col>> of an H x W array (the true cells   *)
(* of the numpy array).       Points are pairs of integers; one unit is   *)
(* one tenth of a millimetre.                                              *)
(***************************************************************************)
EXTENDS Integers, Sequences, FiniteSets, TLC

VARIABLES
    pc,          \* position of the modelled call
    shape,       \* <<H, W>>: mask.shape
    mask,        \* input mask (set of true cells)
    radius_px,   \* morphology radius
    closed,      \* _binary_close(mask, radius_px)
    reclosed,    \* _binary_close(closed, radius_px)
    dilated,     \* _binary_dilate(mask, radius_px)
    eroded,      \* _binary_erode(mask, radius_px)
    max_iter,    \* _zhang_suen_thin: iteration cap
    img,         \* _zhang_suen_thin: working image
    it,          \* _zhang_suen_thin: iteration counter
    changed,     \* _zhang_suen_thin: loop flag
    thin_in,     \* _zhang_suen_thin: the mask it was called with
    iter_img,    \* history: img when the current loop iteration began
    skel,        \* _ridge_skeleton_from_dist result
    dist,        \* _distance_transform_chamfer: dist, <<>> before it is built
    pts,         \* chaikin_smooth / rdp_simplify: input points
    iters,       \* chaikin_smooth: iteration count
    eps,         \* rdp_simplify: tolerance
    keep,        \* rdp_simplify: indices i with keep[i] true
    out_pts,     \* chaikin_smooth / rdp_simplify: returned points
    strokes,     \* route planning: the input stroke list
    policy,      \* reorder: "lr" or "tlbr"
    lr_penalty,  \* reorder_strokes_lr: penalty per unit moved left
    up_penalty,  \* reorder_strokes_tlbr: up_penalty
    left_penalty,\* reorder_strokes_tlbr: left_penalty
    remaining,   \* reorder: strokes not yet placed
    ordered,     \* reorder: strokes placed so far
    cur_pt,      \* reorder: pen position
    stitch_mm,   \* stitch_strokes: threshold
    out_strokes, \* route planning: the returned stroke list
    args,        \* main: the route planning options
    poly_step_mm,     \* to_plot_cmds: poly_step_mm
    pen_settle_ms,    \* to_plot_cmds: pen_settle_ms
    segment_dwell_ms, \* to_plot_cmds: segment_dwell_ms
    si,               \* to_plot_cmds: strokes handled so far
    cmds,             \* to_plot_cmds: cmds
    ser,         \* SerialReader._ser: "None" or "open"
    line,        \* _read_line_blocking: what the last call returned, <<>> for None
    received,    \* the non-empty results of readline so far
    returned,    \* the texts _read_line_blocking returned so far
    stop,        \* SerialReader._stop is set
    thread,      \* SerialReader._thread: 0 for None, else the number of the thread
    readers,     \* the reader threads started so far: [at, line] each
    lines,       \* SerialReader._lines
    call,        \* the caller: [fn, at], fn "idle" between calls
    got,         \* history: what the get_lines calls returned, [max_lines, out] each
    trace_skel,  \* path tracer: the skeleton it is called with
    edges,       \* _trace_skeleton_to_single_stroke: unused edges {a, b}
    path_nodes,  \* _trace_skeleton_to_single_stroke: pixels walked so far
    cur_node,    \* _trace_skeleton_to_single_stroke: cur
    trace_mode,  \* text_to_centerline_strokes_mm: "walk" or "segments"
    min_stroke,  \* min_stroke_mm in pixels
    strokes_mm,  \* the strokes the tracer returned
    visited,     \* _trace_skeleton_to_strokes: the true cells of visited
    pix_strokes, \* _trace_skeleton_to_strokes: pixel paths kept so far
    prev_node,   \* walk: <<>> for prev is None, else <<prev>>
    todo,        \* _trace_skeleton_to_strokes: what is left of the list being swept
    raised       \* text_to_centerline_strokes_mm: the error raised, "" for none

morphVars == <<radius_px, closed, reclosed, dilated, eroded>>
thinVars == <<max_iter, img, it, changed, thin_in, iter_img, skel>>
gridVars == <<shape, mask, morphVars, thinVars, dist>>
polishVars == <<pts, iters, eps, keep, out_pts>>
reorderVars == <<policy, lr_penalty, up_penalty, left_penalty, remaining, ordered, cur_pt>>
routeVars == <<strokes, reorderVars, stitch_mm, out_strokes, args>>
segVars == <<visited, pix_strokes, prev_node, todo>>
traceVars == <<trace_skel, edges, path_nodes, cur_node, trace_mode, min_stroke, strokes_mm, raised,
               segVars>>
readerVars == <<stop, thread, readers, lines, call, got>>
serialVars == <<ser, line, received, returned, readerVars>>
exportVars == <<poly_step_mm, pen_settle_ms, segment_dwell_ms, si, cmds>>
nonGridVars == <<polishVars, routeVars, traceVars, serialVars, exportVars>>
vars == <<pc, gridVars, nonGridVars>>

(***************************************************************************)
(* Bounds                                                                  *)
(***************************************************************************)
GridH == 4
GridW == 4
MaxPixels == 4
MaxRadius == 1
MaxIter == 3
MaxCoord == 1
MaxPts == 4
MaxSmooth == 2
MaxEps == 6
Step == 4
MaxStrokes == 3
PenaltyWeight == 1
MaxStitch == 5
TraceH == 4
TraceW == 6
MaxSkel == 6
PipeH == 5
PipeW == 5
MaxMinStroke == 2
MaxPxPerMm == 3
MaxMargin == 2
MaxLineLen == 2
MaxReads == 2
ChamferH == 4
ChamferW == 4
MaxHoles == 3
MaxPolyStep == 2
MaxDwell == 1
MaxThreads == 2
MaxGets == 2
MaxGetLines == 1

\* H, W = mask.shape
H == shape[1]
W == shape[2]

Cells == (0 .. H - 1) \X (0 .. W - 1)

RECURSIVE SubsetsUpTo(_, _)
SubsetsUpTo(S, k) ==
    IF k = 0 THEN {{}}
    ELSE LET prev == SubsetsUpTo(S, k - 1)
         IN  prev \cup {s \cup {x} : s \in prev, x \in S}

\* the masks the operations are applied to: at most MaxPixels true cells
Masks == SubsetsUpTo(Cells, MaxPixels)

(***************************************************************************)
(* Morphology                                                              *)
(***************************************************************************)
\* off-by-one kernel: range(-radius_px, radius_px)
binary_dilate_short(m, r) ==
    IF r <= 0 THEN m
    ELSE {p \in Cells : \E dr \in (-r) .. (r - 1), dc \in (-r) .. (r - 1) :
                            <<p[1] + dr, p[2] + dc>> \in m}

\* the kernel loop skipping dr == 0 and dc == 0
binary_dilate_no_centre(m, r) ==
    IF r <= 0 THEN m
    ELSE {p \in Cells : \E dr \in (-r) .. r, dc \in (-r) .. r :
                            /\ ~(dr = 0 /\ dc = 0)
                            /\ <<p[1] + dr, p[2] + dc>> \in m}

\* np.pad(..., constant_values=False): cells outside the array are never in m
binary_dilate(m, r) ==
    IF r <= 0 THEN m
    ELSE {p \in Cells : \E dr \in (-r) .. r, dc \in (-r) .. r :
                            <<p[1] + dr, p[2] + dc>> \in m}

binary_erode(m, r) ==
    IF r <= 0 THEN m
    ELSE Cells \ binary_dilate(Cells \ m, r)

binary_close(m, r) ==
    IF r <= 0 THEN m
    ELSE binary_erode(binary_dilate(m, r), r)

(***************************************************************************)
(* Zhang-Suen thinning                                                     *)
(***************************************************************************)
\* a[r, c] with np.roll's wrap-around
At(a, r, c) == IF <<r % H, c % W>> \in a THEN 1 ELSE 0

\* <<P2, P3, P4, P5, P6, P7, P8, P9>> at cell p
neighbors8(a, p) ==
    LET r == p[1]
        c == p[2]
    IN  << At(a, r + 1, c),     At(a, r + 1, c - 1), At(a, r, c - 1),
           At(a, r - 1, c - 1), At(a, r - 1, c),     At(a, r - 1, c + 1),
           At(a, r, c + 1),     At(a, r + 1, c + 1) >>

NeighborCountB(n) == n[1] + n[2] + n[3] + n[4] + n[5] + n[6] + n[7] + n[8]

TransitionsA(n) ==
    LET seq == n \o <<n[1]>>
    IN  Cardinality({k \in 1 .. 8 : seq[k] = 0 /\ seq[k + 1] = 1})

clear_borders(a) ==
    {p \in a : p[1] # 0 /\ p[1] # H - 1 /\ p[2] # 0 /\ p[2] # W - 1}

\* m1: (P2*P4*P6 == 0) & (P4*P6*P8 == 0)
RemovableFirst(a) ==
    {p \in a : LET n == neighbors8(a, p)
               IN  /\ NeighborCountB(n) >= 2
                   /\ NeighborCountB(n) <= 6
                   /\ TransitionsA(n) = 1
                   /\ n[1] * n[3] * n[5] = 0
                   /\ n[3] * n[5] * n[7] = 0}

\* m2: (P2*P4*P8 == 0) & (P2*P6*P8 == 0)
RemovableSecond(a) ==
    {p \in a : LET n == neighbors8(a, p)
               IN  /\ NeighborCountB(n) >= 2
                   /\ NeighborCountB(n) <= 6
                   /\ TransitionsA(n) = 1
                   /\ n[1] * n[3] * n[7] = 0
                   /\ n[1] * n[5] * n[7] = 0}

(***************************************************************************)
(* SpecMorph: _binary_close applied twice to a mask                        *)
(***************************************************************************)
MorphIdle == radius_px = 0 /\ closed = {} /\ reclosed = {} /\ dilated = {} /\ eroded = {}

PolishIdle == pts = <<>> /\ iters = 0 /\ eps = 0 /\ keep = {} /\ out_pts = <<>>

ReorderIdle ==
    /\ policy = "" /\ lr_penalty = 0 /\ up_penalty = 0 /\ left_penalty = 0
    /\ remaining = <<>> /\ ordered = <<>> /\ cur_pt = <<0, 0>>

\* every route planning option of main switched off
NoArgs ==
    [optimize_lr |-> FALSE, lr_penalty |-> 0, force_lr |-> FALSE,
     optimize_tlbr |-> FALSE, tlbr_penalty_up |-> 0, tlbr_penalty_left |-> 0,
     stitch_mm |-> 0, bridge_mm |-> 0]

RouteIdle ==
    /\ strokes = <<>> /\ ReorderIdle /\ stitch_mm = 0 /\ out_strokes = <<>>
    /\ args = NoArgs

TraceIdle ==
    /\ trace_skel = {} /\ edges = {} /\ path_nodes = <<>> /\ cur_node = <<0, 0>>
    /\ trace_mode = "" /\ min_stroke = 0 /\ strokes_mm = <<>> /\ raised = ""
    /\ visited = {} /\ pix_strokes = <<>> /\ prev_node = <<>> /\ todo = <<>>

ReaderIdle ==
    /\ stop = FALSE /\ thread = 0 /\ readers = <<>> /\ lines = <<>>
    /\ call = [fn |-> "idle", at |-> "init"] /\ got = <<>>

SerialIdle ==
    /\ ser = "None" /\ line = <<>> /\ received = <<>> /\ returned = <<>>
    /\ ReaderIdle

ExportIdle ==
    /\ poly_step_mm = 0 /\ pen_settle_ms = 0 /\ segment_dwell_ms = 0
    /\ si = 0 /\ cmds = <<>>

NonGridIdle == PolishIdle /\ RouteIdle /\ TraceIdle /\ SerialIdle /\ ExportIdle

ThinIdle ==
    /\ max_iter = 0 /\ img = {} /\ it = 0 /\ changed = FALSE
    /\ thin_in = {} /\ iter_img = {} /\ skel = {} /\ dist = <<>>

GridIdle == shape = <<0, 0>> /\ mask = {} /\ MorphIdle /\ ThinIdle

MorphInit ==
    /\ pc = "morph"
    /\ shape = <<GridH, GridW>>
    /\ mask \in Masks
    /\ radius_px \in (-1) .. MaxRadius
    /\ closed = {}
    /\ reclosed = {}
    /\ dilated = {}
    /\ eroded = {}
    /\ ThinIdle
    /\ NonGridIdle

Close ==
    /\ pc = "morph"
    /\ closed' = binary_close(mask, radius_px)
    /\ pc' = "closed"
    /\ UNCHANGED <<shape, mask, radius_px, reclosed, dilated, eroded, thinVars, dist, nonGridVars>>

CloseAgain ==
    /\ pc = "closed"
    /\ reclosed' = binary_close(closed, radius_px)
    /\ pc' = "reclosed"
    /\ UNCHANGED <<shape, mask, radius_px, closed, dilated, eroded, thinVars, dist, nonGridVars>>

MorphNext == Close \/ CloseAgain

SpecMorph == MorphInit /\ [][MorphNext]_vars

\* C1: closing is idempotent: closing the closed mask with the same radius
\* gives the closed mask again, cell for cell.
CloseIdempotent == pc = "reclosed" => reclosed = closed

\* a closing with a positive radius that changed a mask touching the border
CloseIdempotentWitness ==
    /\ pc = "reclosed"
    /\ radius_px >= 1
    /\ closed # mask
    /\ closed # Cells
    /\ \E p \in mask : p[1] = 0 \/ p[2] = W - 1

(***************************************************************************)
(* SpecDilateErode: _binary_dilate and _binary_erode applied to a mask     *)
(***************************************************************************)
Dilate ==
    /\ pc = "morph"
    /\ dilated' = binary_dilate(mask, radius_px)
    /\ pc' = "dilated"
    /\ UNCHANGED <<shape, mask, radius_px, closed, reclosed, eroded, thinVars, dist, nonGridVars>>

Erode ==
    /\ pc = "morph"
    /\ eroded' = binary_erode(mask, radius_px)
    /\ pc' = "eroded"
    /\ UNCHANGED <<shape, mask, radius_px, closed, reclosed, dilated, thinVars, dist, nonGridVars>>

DilateErodeNext == Dilate \/ Erode

SpecDilateErode == MorphInit /\ [][DilateErodeNext]_vars

\* C12: for every mask and every radius >= 0 dilation only adds foreground
\* (mask within the dilated mask) and erosion only removes it (the eroded
\* mask within mask).
DilateErodeMonotone ==
    /\ (pc = "dilated" /\ radius_px >= 0) => mask \subseteq dilated
    /\ (pc = "eroded" /\ radius_px >= 0) => eroded \subseteq mask

\* an erosion with a positive radius that removed some cells and kept one
DilateErodeMonotoneWitness ==
    /\ pc = "eroded"
    /\ radius_px >= 1
    /\ eroded # {}
    /\ eroded # mask

(***************************************************************************)
(* Chamfer distance transform and ridge skeleton                           *)
(***************************************************************************)
inf == 1000000000
w_ortho == 3
w_diag == 4

Min2(a, b) == IF a < b THEN a ELSE b

\* one cell's update in the forward raster pass
ForwardCell(d, r, c) ==
    LET d0 == d[<<r, c>>]
        d1 == IF r > 0 THEN Min2(d0, d[<<r - 1, c>>] + w_ortho) ELSE d0
        d2 == IF r > 0 /\ c > 0 THEN Min2(d1, d[<<r - 1, c - 1>>] + w_diag) ELSE d1
        d3 == IF r > 0 /\ c + 1 < W THEN Min2(d2, d[<<r - 1, c + 1>>] + w_diag) ELSE d2
    IN  IF c > 0 THEN Min2(d3, d[<<r, c - 1>>] + w_ortho) ELSE d3

\* the backward update without its two diagonal neighbours
BackwardCellNoDiag(d, r, c) ==
    LET d0 == d[<<r, c>>]
        d1 == IF r + 1 < H THEN Min2(d0, d[<<r + 1, c>>] + w_ortho) ELSE d0
    IN  IF c + 1 < W THEN Min2(d1, d[<<r, c + 1>>] + w_ortho) ELSE d1

\* one cell's update in the backward raster pass
BackwardCell(d, r, c) ==
    LET d0 == d[<<r, c>>]
        d1 == IF r + 1 < H THEN Min2(d0, d[<<r + 1, c>>] + w_ortho) ELSE d0
        d2 == IF r + 1 < H /\ c > 0 THEN Min2(d1, d[<<r + 1, c - 1>>] + w_diag) ELSE d1
        d3 == IF r + 1 < H /\ c + 1 < W
              THEN Min2(d2, d[<<r + 1, c + 1>>] + w_diag) ELSE d2
    IN  IF c + 1 < W THEN Min2(d3, d[<<r, c + 1>>] + w_ortho) ELSE d3

\* cells k, k+1, ... of the row-major order, updated in place one after another
RECURSIVE ForwardPass(_, _, _)
ForwardPass(d, m, k) ==
    IF k >= H * W THEN d
    ELSE LET r == k \div W
             c == k % W
         IN  ForwardPass(IF <<r, c>> \in m
                         THEN [d EXCEPT ![<<r, c>>] = ForwardCell(d, r, c)]
                         ELSE d, m, k + 1)

\* cells k, k-1, ... of the row-major order
RECURSIVE BackwardPass(_, _, _)
BackwardPass(d, m, k) ==
    IF k < 0 THEN d
    ELSE LET r == k \div W
             c == k % W
         IN  BackwardPass(IF <<r, c>> \in m
                          THEN [d EXCEPT ![<<r, c>>] = BackwardCell(d, r, c)]
                          ELSE d, m, k - 1)

distance_transform_chamfer(m) ==
    LET d0 == [p \in Cells |-> IF p \in m THEN inf ELSE 0]
    IN  BackwardPass(ForwardPass(d0, m, 0), m, H * W - 1)

ridge_skeleton_from_dist(m, d) ==
    {p \in m : /\ p[1] >= 1 /\ p[1] <= H - 2
               /\ p[2] >= 1 /\ p[2] <= W - 2
               /\ d[p] # 0
               /\ \A dr \in {-1, 0, 1}, dc \in {-1, 0, 1} :
                      d[p] >= d[<<p[1] + dr, p[2] + dc>>]}

(***************************************************************************)
(* SpecChamfer: _distance_transform_chamfer on masks with few background   *)
(* cells, one step per raster pass                                         *)
(***************************************************************************)
\* the masks with at most MaxHoles false cells
ChamferMasks == {Cells \ b : b \in SubsetsUpTo(Cells, MaxHoles)}

ChamferInit ==
    /\ pc = "chamfer"
    /\ shape = <<ChamferH, ChamferW>>
    /\ mask \in ChamferMasks
    /\ dist = <<>>
    /\ max_iter = 0 /\ img = {} /\ it = 0 /\ changed = FALSE
    /\ thin_in = {} /\ iter_img = {} /\ skel = {}
    /\ MorphIdle
    /\ NonGridIdle

\* lines 525-545: dist = full(inf), dist[~mask] = 0 and the forward pass
ChamferForward ==
    /\ pc = "chamfer"
    /\ dist' = ForwardPass([p \in Cells |-> IF p \in mask THEN inf ELSE 0], mask, 0)
    /\ pc' = "chamfer_back"
    /\ UNCHANGED <<shape, mask, morphVars, thinVars, nonGridVars>>

\* lines 547-563: the backward pass and "return dist"
ChamferBackward ==
    /\ pc = "chamfer_back"
    /\ dist' = BackwardPass(dist, mask, H * W - 1)
    /\ pc' = "chamfer_done"
    /\ UNCHANGED <<shape, mask, morphVars, thinVars, nonGridVars>>

ChamferNext == ChamferForward \/ ChamferBackward

SpecChamfer == ChamferInit /\ [][ChamferNext]_vars

(***************************************************************************)
(* SpecThin: the skeleton stage of text_to_centerline_strokes_mm, with     *)
(* _zhang_suen_thin unrolled into its loop steps                           *)
(***************************************************************************)
ThinInit ==
    /\ pc = "skeleton"
    /\ shape = <<GridH, GridW>>
    /\ mask \in Masks
    /\ max_iter \in {-1, 0, 1, MaxIter}
    /\ img = {} /\ it = 0 /\ changed = FALSE
    /\ thin_in = {} /\ iter_img = {} /\ skel = {} /\ dist = <<>>
    /\ MorphIdle
    /\ NonGridIdle

\* lines 463-485 of _zhang_suen_thin(m, max_iter)
ThinEnter(m) ==
    /\ thin_in' = m
    /\ img' = clear_borders(m)
    /\ iter_img' = clear_borders(m)
    /\ changed' = TRUE
    /\ it' = 0
    /\ pc' = "while"
    /\ UNCHANGED <<shape, mask, max_iter, morphVars, dist, nonGridVars>>

\* skeleton_method != "ridge"
ThinStart ==
    /\ pc = "skeleton"
    /\ ThinEnter(mask)
    /\ UNCHANGED skel

\* skeleton_method == "ridge"
Ridge ==
    /\ pc = "skeleton"
    /\ skel' = ridge_skeleton_from_dist(mask, distance_transform_chamfer(mask))
    /\ pc' = "ridge"
    /\ UNCHANGED <<shape, mask, max_iter, img, it, changed, thin_in, iter_img, morphVars, dist, nonGridVars>>

\* the optional thinning of the ridge skeleton
RidgeThin ==
    /\ pc = "ridge"
    /\ max_iter > 0
    /\ ThinEnter(skel)
    /\ UNCHANGED skel

WhileGuardNoCap == changed

WhileGuard == changed /\ it < max_iter

WhileEnter ==
    /\ pc = "while"
    /\ WhileGuard
    /\ changed' = FALSE
    /\ it' = it + 1
    /\ iter_img' = img
    /\ pc' = "sub1"
    /\ UNCHANGED <<shape, mask, max_iter, img, thin_in, skel, morphVars, dist, nonGridVars>>

WhileExit ==
    /\ pc = "while"
    /\ ~WhileGuard
    /\ pc' = "done"
    /\ UNCHANGED <<shape, mask, thinVars, morphVars, dist, nonGridVars>>

\* img ^= m with m computed without the (img == 1) test: background cells
\* whose ring passes the B and A tests are switched on
AfterRemovalToggle(a, m) ==
    (a \ m) \cup {p \in Cells \ a : LET n == neighbors8(a, p)
                                    IN  /\ NeighborCountB(n) >= 2
                                        /\ NeighborCountB(n) <= 6
                                        /\ TransitionsA(n) = 1}

AfterRemoval(a, m) == a \ m

SubIter1 ==
    /\ pc = "sub1"
    /\ LET m1 == RemovableFirst(img)
       IN  /\ img' = AfterRemoval(img, m1)
           /\ changed' = (changed \/ m1 # {})
    /\ pc' = "clear1"
    /\ UNCHANGED <<shape, mask, max_iter, it, thin_in, iter_img, skel, morphVars, dist, nonGridVars>>

Clear1 ==
    /\ pc = "clear1"
    /\ img' = clear_borders(img)
    /\ pc' = "sub2"
    /\ UNCHANGED <<shape, mask, max_iter, it, changed, thin_in, iter_img, skel, morphVars, dist, nonGridVars>>

SubIter2 ==
    /\ pc = "sub2"
    /\ LET m2 == RemovableSecond(img)
       IN  /\ img' = AfterRemoval(img, m2)
           /\ changed' = (changed \/ m2 # {})
    /\ pc' = "clear2"
    /\ UNCHANGED <<shape, mask, max_iter, it, thin_in, iter_img, skel, morphVars, dist, nonGridVars>>

Clear2 ==
    /\ pc = "clear2"
    /\ img' = clear_borders(img)
    /\ pc' = "while"
    /\ UNCHANGED <<shape, mask, max_iter, it, changed, thin_in, iter_img, skel, morphVars, dist, nonGridVars>>

ThinNext ==
    \/ ThinStart \/ Ridge \/ RidgeThin
    \/ WhileEnter \/ WhileExit
    \/ SubIter1 \/ Clear1 \/ SubIter2 \/ Clear2

SpecThin == ThinInit /\ [][ThinNext]_vars

ThinRunning == pc \in {"while", "sub1", "clear1", "sub2", "clear2", "done"}

(***************************************************************************)
(* 8-connected components                                                  *)
(***************************************************************************)
Adjacent8(p, q) ==
    /\ p # q
    /\ p[1] - q[1] \in {-1, 0, 1}
    /\ p[2] - q[2] \in {-1, 0, 1}

RECURSIVE Grow(_, _)
Grow(S, comp) ==
    LET nxt == {q \in S \ comp : \E p \in comp : Adjacent8(p, q)}
    IN  IF nxt = {} THEN comp ELSE Grow(S, comp \cup nxt)

RECURSIVE NumComponents(_)
NumComponents(S) ==
    IF S = {} THEN 0
    ELSE LET p == CHOOSE x \in S : TRUE
         IN  1 + NumComponents(S \ Grow(S, {p}))

\* C2: thinning keeps the number of 8-connected components of the
\* border-cleared input, so it erases no component completely.
ThinPreservesComponents ==
    pc = "done" => NumComponents(img) = NumComponents(clear_borders(thin_in))

\* the skeleton the stage hands on: the thinned image, or the ridge skeleton
\* when no thinning follows it
SkeletonReady == pc = "done" \/ (pc = "ridge" /\ max_iter <= 0)
FinalSkeleton == IF pc = "done" THEN img ELSE skel

\* C3: every true cell of the skeleton (either method) has a true 8-neighbour,
\* unless the whole mask is a single pixel.
SkeletonPixelsHaveNeighbour ==
    SkeletonReady =>
        \/ Cardinality(mask) = 1
        \/ \A p \in FinalSkeleton : \E q \in FinalSkeleton : Adjacent8(p, q)

\* C4: no step of the thinning loop adds a foreground pixel: after every
\* sub-iteration and border clearing img is a subset of what it was.
ThinNeverGrows ==
    [][(pc \in {"sub1", "clear1", "sub2", "clear2"}) => (img' \subseteq img)]_vars

\* a second iteration whose first sub-iteration removed a pixel
ThinNeverGrowsWitness ==
    /\ pc = "clear1"
    /\ changed
    /\ img # iter_img
    /\ img # {}

IterCap == IF max_iter > 0 THEN max_iter ELSE 0

\* steps left inside the current iteration
PcRank ==
    CASE pc = "sub1" -> 4
      [] pc = "clear1" -> 3
      [] pc = "sub2" -> 2
      [] pc = "clear2" -> 1
      [] pc = "while" -> 0
      [] OTHER -> -1

\* a measure every step of the call decreases; it is at least -1
ThinVariant == 5 * (IterCap - it) + PcRank

\* C5: the loop runs at most max_iter iterations (none when max_iter <= 0),
\* stops at the first iteration that removed no pixel, and the call always
\* ends: until it returns a step is possible and every step decreases a
\* measure that is bounded below.
ThinTerminates ==
    /\ [](ThinRunning => (it <= IterCap /\ it >= 0))
    /\ [](pc = "done" => (it = IterCap \/ img = iter_img))
    /\ [][(pc = "while" /\ it >= 1 /\ img = iter_img) => (pc' = "done")]_vars
    /\ [][(pc = "while" /\ pc' = "sub1") => (it < max_iter /\ (it = 0 \/ img # iter_img))]_vars
    /\ []((ThinRunning /\ pc # "done") => ENABLED ThinNext)
    /\ [][ThinRunning => (ThinVariant' < ThinVariant)]_vars

\* the loop ended below the cap, after an iteration that removed nothing,
\* which followed one that did remove pixels
ThinTerminatesWitness ==
    /\ pc = "done"
    /\ it = 2
    /\ it < max_iter
    /\ img = iter_img
    /\ img # clear_borders(thin_in)

(***************************************************************************)
(* Points and geometry.  Coordinates are integers; squared distances and   *)
(* squared deviations are compared exactly instead of their square roots.  *)
(***************************************************************************)
\* lattice points Step units apart
Points == {<<i * Step, j * Step>> : i \in 0 .. MaxCoord, j \in 0 .. MaxCoord}

\* the corners of a square of side Step: the end points of the route strokes
RoutePoints == {<<0, 0>>, <<Step, 0>>, <<0, Step>>, <<Step, Step>>}

\* lattice points for smoothing: every blend of MaxSmooth rounds stays integral
SmoothStep == 4 ^ MaxSmooth
SmoothPoints == {<<i * SmoothStep, j * SmoothStep>> : i \in 0 .. MaxCoord, j \in 0 .. MaxCoord}

SeqsUpTo(S, n) == UNION {[1 .. k -> S] : k \in 0 .. n}

\* _dist(a, b) squared
dist2(a, b) == (a[1] - b[1]) * (a[1] - b[1]) + (a[2] - b[2]) * (a[2] - b[2])

(***************************************************************************)
(* Path tracer: helpers shared by both policies                            *)
(***************************************************************************)
\* the offsets (dr, dc) in the order of the two nested loops
Offsets8 ==
    << <<-1, -1>>, <<-1, 0>>, <<-1, 1>>, <<0, -1>>, <<0, 1>>, <<1, -1>>, <<1, 0>>, <<1, 1>> >>

\* nbrs(r, c): the true cells around p inside the array, in loop order
nbrs(sk, p) ==
    LET cell(i) == <<p[1] + Offsets8[i][1], p[2] + Offsets8[i][2]>>
        all == [i \in 1 .. 8 |-> cell(i)]
        Inside(q) == /\ 0 <= q[1] /\ q[1] < H /\ 0 <= q[2] /\ q[2] < W
                     /\ q \in sk
    IN  SelectSeq(all, Inside)

\* the cells of S in the order of np.where: by row, then by column
RowMajor(S) ==
    LET pos == [p \in S |-> Cardinality({q \in S : q[1] * W + q[2] <= p[1] * W + p[2]})]
    IN  [i \in 1 .. Cardinality(S) |-> CHOOSE p \in S : pos[p] = i]

\* to_mm(r, c) in half pixels, for a sheet of W x H pixels
to_mm(p) ==
    LET x == 2 * p[2] + 1
        y == 2 * p[1] + 1
    IN  << (IF x > 2 * W THEN 2 * W ELSE IF x < 0 THEN 0 ELSE x),
           (IF y > 2 * H THEN 2 * H ELSE IF y < 0 THEN 0 ELSE y) >>

\* [to_mm(r, c) for (r, c) in pix]
PathToMm(pix) == [i \in 1 .. Len(pix) |-> to_mm(pix[i])]

(***************************************************************************)
(* Path tracer: segment policy (_trace_skeleton_to_strokes)                *)
(***************************************************************************)
\* _skeleton_degrees(skel)[p]: np.roll wraps around the array
skeleton_degrees(sk, p) ==
    Cardinality({i \in 1 .. 8 :
        <<(p[1] - Offsets8[i][1]) % H, (p[2] - Offsets8[i][2]) % W>> \in sk})

\* a pass of while True without the test "deg[cur] != 2"
WalkBodyThroughJunctions(sk, start, w) ==
    LET n == nbrs(sk, w.cur)
        NotPrev(c) == ~w.has_prev \/ c # w.prev
        Fresh(c) == NotPrev(c) /\ c \notin w.visited
        fresh == SelectSeq(n, Fresh)
        others == SelectSeq(n, NotPrev)
        nxt == IF fresh # <<>> THEN fresh[1] ELSE others[1]
    IN  IF others = <<>> THEN [w EXCEPT !.done = TRUE]
        ELSE IF nxt \in w.visited
             THEN [w EXCEPT !.path = IF nxt = start THEN Append(@, nxt) ELSE @,
                            !.done = TRUE]
             ELSE [path |-> Append(w.path, nxt),
                   visited |-> w.visited \cup {nxt},
                   has_prev |-> TRUE, prev |-> w.cur, cur |-> nxt, done |-> FALSE]

\* a pass of while True without "visited[nxt] = True"
WalkBodyNoMark(sk, start, w) ==
    LET n == nbrs(sk, w.cur)
        NotPrev(c) == ~w.has_prev \/ c # w.prev
        Fresh(c) == NotPrev(c) /\ c \notin w.visited
        fresh == SelectSeq(n, Fresh)
        others == SelectSeq(n, NotPrev)
        nxt == IF fresh # <<>> THEN fresh[1] ELSE others[1]
    IN  IF w.has_prev /\ skeleton_degrees(sk, w.cur) # 2 THEN [w EXCEPT !.done = TRUE]
        ELSE IF others = <<>> THEN [w EXCEPT !.done = TRUE]
        ELSE IF nxt \in w.visited
             THEN [w EXCEPT !.path = IF nxt = start THEN Append(@, nxt) ELSE @,
                            !.done = TRUE]
             ELSE [path |-> Append(w.path, nxt),
                   visited |-> w.visited,
                   has_prev |-> TRUE, prev |-> w.cur, cur |-> nxt, done |-> FALSE]

\* one pass of the while True loop of walk(start); w is
\* [path, visited, has_prev, prev, cur, done], done after a break
WalkBody(sk, start, w) ==
    LET n == nbrs(sk, w.cur)
        NotPrev(c) == ~w.has_prev \/ c # w.prev
        Fresh(c) == NotPrev(c) /\ c \notin w.visited
        fresh == SelectSeq(n, Fresh)
        others == SelectSeq(n, NotPrev)
        nxt == IF fresh # <<>> THEN fresh[1] ELSE others[1]
    IN  IF w.has_prev /\ skeleton_degrees(sk, w.cur) # 2 THEN [w EXCEPT !.done = TRUE]
        ELSE IF others = <<>> THEN [w EXCEPT !.done = TRUE]
        ELSE IF nxt \in w.visited
             THEN [w EXCEPT !.path = IF nxt = start THEN Append(@, nxt) ELSE @,
                            !.done = TRUE]
             ELSE [path |-> Append(w.path, nxt),
                   visited |-> w.visited \cup {nxt},
                   has_prev |-> TRUE, prev |-> w.cur, cur |-> nxt, done |-> FALSE]

\* pix_strokes.append(p) without the test len(p) >= 2
AppendPathAlways(strokes_px, q) == Append(strokes_px, q)

\* "if len(p) >= 2: pix_strokes.append(p)"
AppendPath(strokes_px, q) == IF Len(q) >= 2 THEN Append(strokes_px, q) ELSE strokes_px

\* length < min_stroke_mm for a path of pixel steps: a straight steps and b
\* diagonal steps have length a + b * sqrt(2) pixels
TooShort(q, m) ==
    LET a == Cardinality({i \in 2 .. Len(q) : dist2(q[i - 1], q[i]) = 4})
        b == Cardinality({i \in 2 .. Len(q) : dist2(q[i - 1], q[i]) = 8})
    IN  m - a > 0 /\ 2 * b * b < (m - a) * (m - a)

\* lines 728-743: the strokes kept, in half pixels
KeptStrokes(strokes_px, m) ==
    LET mm == [i \in 1 .. Len(strokes_px) |-> PathToMm(strokes_px[i])]
        Kept(q) == ~TooShort(q, m)
    IN  SelectSeq(mm, Kept)

(***************************************************************************)
(* Path tracer: single-walk policy (_trace_skeleton_to_single_stroke)      *)
(***************************************************************************)
\* edge_key(a, b): the same key for (a, b) and (b, a)
edge_key(a, b) == {a, b}

\* the set edges as first built from adj
SkelEdges(sk) ==
    UNION {{edge_key(a, nbrs(sk, a)[i]) : i \in 1 .. Len(nbrs(sk, a))} : a \in sk}

\* the neighbours b of a, in adj[a] order, with edge_key(a, b) in E
UnusedFrom(sk, E, a) ==
    LET Unused(b) == edge_key(a, b) \in E
    IN  SelectSeq(nbrs(sk, a), Unused)

has_remaining_edge(sk, E, a) == UnusedFrom(sk, E, a) # <<>>

remaining_nodes(sk, E) ==
    LET Has(a) == has_remaining_edge(sk, E, a)
    IN  SelectSeq(RowMajor(sk), Has)

\* pick_start(): <<>> stands for None
pick_start(sk, E) ==
    LET candidates == remaining_nodes(sk, E)
        One(a) == Len(UnusedFrom(sk, E, a)) = 1
        endpoints == SelectSeq(candidates, One)
    IN  IF candidates = <<>> THEN <<>>
        ELSE IF endpoints # <<>> THEN <<endpoints[1]>>
        ELSE <<candidates[1]>>

\* nearest_node(a, candidates): the first candidate at the least distance
nearest_node(a, candidates) ==
    LET d(i) == dist2(a, candidates[i])
        best == CHOOSE i \in 1 .. Len(candidates) :
                    \A j \in 1 .. Len(candidates) : d(i) < d(j) \/ (d(i) = d(j) /\ i <= j)
    IN  candidates[best]

\* one iteration of while edges that leaves the unused edge in edges
WalkStepKeepEdge(sk, ws) ==
    IF ~has_remaining_edge(sk, ws.edges, ws.cur)
    THEN LET candidates == remaining_nodes(sk, ws.edges)
         IN  IF candidates = <<>> THEN [ws EXCEPT !.stopped = TRUE]
             ELSE LET nxt == nearest_node(ws.cur, candidates)
                  IN  [ws EXCEPT !.path_nodes = Append(@, nxt), !.cur = nxt]
    ELSE LET nxt == UnusedFrom(sk, ws.edges, ws.cur)[1]
         IN  [ws EXCEPT !.path_nodes = Append(@, nxt), !.cur = nxt]

\* one iteration of while edges; ws is [edges, path_nodes, cur, stopped],
\* stopped after a break
WalkStep(sk, ws) ==
    IF ~has_remaining_edge(sk, ws.edges, ws.cur)
    THEN LET candidates == remaining_nodes(sk, ws.edges)
         IN  IF candidates = <<>> THEN [ws EXCEPT !.stopped = TRUE]
             ELSE LET nxt == nearest_node(ws.cur, candidates)
                  IN  [ws EXCEPT !.path_nodes = Append(@, nxt), !.cur = nxt]
    ELSE LET nxt == UnusedFrom(sk, ws.edges, ws.cur)[1]
         IN  [ws EXCEPT !.edges = @ \ {edge_key(ws.cur, nxt)},
                        !.path_nodes = Append(@, nxt), !.cur = nxt]

\* "Remove immediate duplicates": the entries that differ from the entry before
Dedup(path) ==
    LET K == {i \in 1 .. Len(path) : i = 1 \/ path[i] # path[i - 1]}
        pos == [i \in K |-> Cardinality({j \in K : j <= i})]
    IN  [n \in 1 .. Cardinality(K) |-> path[CHOOSE i \in K : pos[i] = n]]

\* lines 852-860: the one stroke returned
WalkResult(path) == <<PathToMm(Dedup(path))>>

(***************************************************************************)
(* SpecWalk: _trace_skeleton_to_single_stroke applied to a skeleton, its   *)
(* while loop unrolled into steps                                          *)
(***************************************************************************)
\* skeletons have no true border cell
Interior == {p \in Cells : p[1] # 0 /\ p[1] # H - 1 /\ p[2] # 0 /\ p[2] # W - 1}

Skeletons == SubsetsUpTo(Interior, MaxSkel)

TraceInit ==
    /\ pc = "trace"
    /\ shape = <<TraceH, TraceW>>
    /\ trace_skel \in Skeletons
    /\ edges = {} /\ path_nodes = <<>> /\ cur_node = <<0, 0>>
    /\ trace_mode = "" /\ min_stroke = 0 /\ strokes_mm = <<>> /\ raised = ""
    /\ visited = {} /\ pix_strokes = <<>> /\ prev_node = <<>> /\ todo = <<>>
    /\ mask = {} /\ MorphIdle /\ ThinIdle
    /\ PolishIdle /\ RouteIdle /\ SerialIdle /\ ExportIdle

\* lines 768-820: nodes, adj, edges, pick_start
WalkStart ==
    /\ pc = "trace"
    /\ trace_mode' = "walk"
    /\ LET start == pick_start(trace_skel, SkelEdges(trace_skel))
       IN  IF trace_skel = {} \/ start = <<>>
           THEN /\ strokes_mm' = <<>>
                /\ pc' = "traced"
                /\ UNCHANGED <<edges, path_nodes, cur_node>>
           ELSE /\ edges' = SkelEdges(trace_skel)
                /\ path_nodes' = <<start[1]>>
                /\ cur_node' = start[1]
                /\ pc' = "walk_loop"
                /\ UNCHANGED strokes_mm
    /\ UNCHANGED <<trace_skel, min_stroke, raised, segVars, gridVars, serialVars, exportVars, polishVars,
                   routeVars>>

WalkState == [edges |-> edges, path_nodes |-> path_nodes, cur |-> cur_node, stopped |-> FALSE]

\* an iteration of while edges; after a break the function returns
WalkIterate(nxt) ==
    /\ edges' = nxt.edges
    /\ path_nodes' = nxt.path_nodes
    /\ cur_node' = nxt.cur
    /\ IF nxt.stopped
       THEN strokes_mm' = WalkResult(path_nodes) /\ pc' = "traced"
       ELSE UNCHANGED <<strokes_mm, pc>>
    /\ UNCHANGED <<trace_skel, trace_mode, min_stroke, raised, segVars, gridVars, serialVars, exportVars, polishVars,
                   routeVars>>

\* lines 823-830: no unused edge at cur, jump to the nearest pixel that has one
WalkJump ==
    /\ pc = "walk_loop"
    /\ edges # {}
    /\ ~has_remaining_edge(trace_skel, edges, cur_node)
    /\ WalkIterate(WalkStep(trace_skel, WalkState))

\* lines 832-850: take the first unused edge at cur
WalkConsume ==
    /\ pc = "walk_loop"
    /\ edges # {}
    /\ has_remaining_edge(trace_skel, edges, cur_node)
    /\ WalkIterate(WalkStep(trace_skel, WalkState))

\* lines 852-860
WalkReturn ==
    /\ pc = "walk_loop"
    /\ edges = {}
    /\ strokes_mm' = WalkResult(path_nodes)
    /\ pc' = "traced"
    /\ UNCHANGED <<trace_skel, edges, path_nodes, cur_node, trace_mode, min_stroke, raised,
                   segVars, gridVars, serialVars, exportVars, polishVars,
                   routeVars>>

WalkNext == WalkStart \/ WalkJump \/ WalkConsume \/ WalkReturn

SpecWalk == TraceInit /\ [][WalkNext]_vars

(***************************************************************************)
(* SpecPipeline: text_to_centerline_strokes_mm from the rasterized mask on *)
(***************************************************************************)
\* filled rectangles
Rects ==
    {{p \in Cells : r0 <= p[1] /\ p[1] <= r1 /\ c0 <= p[2] /\ p[2] <= c1} :
        r0 \in 0 .. H - 1, r1 \in 0 .. H - 1, c0 \in 0 .. W - 1, c1 \in 0 .. W - 1}

\* the rasterized masks: nothing, a filled rectangle, or one or two pixels
PipeMasks == Rects \cup SubsetsUpTo(Cells, 2)

PipeInit ==
    /\ pc = "pipeline"
    /\ shape = <<PipeH, PipeW>>
    /\ mask \in PipeMasks
    /\ max_iter \in {0, MaxIter}
    /\ img = {} /\ it = 0 /\ changed = FALSE
    /\ thin_in = {} /\ iter_img = {} /\ skel = {} /\ dist = <<>>
    /\ MorphIdle
    /\ NonGridIdle

\* lines 873-874
PipeRaster ==
    /\ pc = "pipeline"
    /\ IF mask = {}
       THEN raised' = "mask" /\ pc' = "raised"
       ELSE raised' = raised /\ pc' = "close"
    /\ UNCHANGED <<trace_skel, edges, path_nodes, cur_node, trace_mode, min_stroke, strokes_mm,
                   segVars, gridVars, serialVars, exportVars, polishVars,
                   routeVars>>

\* lines 875-881: r = 0 stands for close_mm <= 0
PipeClose ==
    /\ pc = "close"
    /\ \E r \in 0 .. MaxRadius :
           /\ radius_px' = r
           /\ IF r > 0
              THEN closed' = binary_close(mask, r) /\ mask' = binary_close(mask, r)
              ELSE UNCHANGED <<closed, mask>>
    /\ pc' = "skeleton"
    /\ UNCHANGED <<shape, reclosed, dilated, eroded, thinVars, dist, nonGridVars>>

\* lines 890-891
PipeSkeleton ==
    /\ SkeletonReady
    /\ IF FinalSkeleton = {}
       THEN raised' = "skeleton" /\ pc' = "raised" /\ UNCHANGED trace_skel
       ELSE raised' = raised /\ pc' = "trace" /\ trace_skel' = FinalSkeleton
    /\ UNCHANGED <<edges, path_nodes, cur_node, trace_mode, min_stroke, strokes_mm,
                   segVars, gridVars, serialVars, exportVars, polishVars,
                   routeVars>>

\* line 895 and lines 658-669: trace_mode != "walk"; the first sweep is over
\* the endpoints
SegStart ==
    /\ pc = "trace"
    /\ trace_mode' = "segments"
    /\ visited' = {}
    /\ pix_strokes' = <<>>
    /\ todo' = RowMajor({p \in trace_skel : skeleton_degrees(trace_skel, p) = 1})
    /\ pc' = "seg_ends"
    /\ UNCHANGED <<trace_skel, edges, path_nodes, cur_node, min_stroke, strokes_mm, raised,
                   prev_node, gridVars, serialVars, exportVars, polishVars, routeVars>>

InSweep == pc \in {"seg_ends", "seg_rest"}
InWalk == pc \in {"seg_ends_walk", "seg_rest_walk"}

\* "if visited[p]: continue"
SegSkip ==
    /\ InSweep
    /\ todo # <<>>
    /\ Head(todo) \in visited
    /\ todo' = Tail(todo)
    /\ UNCHANGED <<pc, trace_skel, edges, path_nodes, cur_node, trace_mode, min_stroke,
                   strokes_mm, raised, visited, pix_strokes, prev_node,
                   gridVars, serialVars, exportVars, polishVars, routeVars>>

\* lines 671-675: walk(start) up to its loop
SegWalkStart ==
    /\ InSweep
    /\ todo # <<>>
    /\ Head(todo) \notin visited
    /\ path_nodes' = <<Head(todo)>>
    /\ visited' = visited \cup {Head(todo)}
    /\ prev_node' = <<>>
    /\ cur_node' = Head(todo)
    /\ pc' = IF pc = "seg_ends" THEN "seg_ends_walk" ELSE "seg_rest_walk"
    /\ UNCHANGED <<trace_skel, edges, trace_mode, min_stroke, strokes_mm, raised,
                   pix_strokes, todo, gridVars, serialVars, exportVars, polishVars, routeVars>>

WalkRec ==
    [path |-> path_nodes, visited |-> visited, has_prev |-> prev_node # <<>>,
     prev |-> IF prev_node = <<>> THEN cur_node ELSE prev_node[1],
     cur |-> cur_node, done |-> FALSE]

\* lines 677-707: a pass of while True that goes on to the next pixel
SegWalkStep ==
    /\ InWalk
    /\ LET w == WalkBody(trace_skel, Head(todo), WalkRec)
       IN  /\ ~w.done
           /\ path_nodes' = w.path
           /\ visited' = w.visited
           /\ prev_node' = <<w.prev>>
           /\ cur_node' = w.cur
    /\ UNCHANGED <<pc, trace_skel, edges, trace_mode, min_stroke, strokes_mm, raised,
                   pix_strokes, todo, gridVars, serialVars, exportVars, polishVars, routeVars>>

\* a pass that breaks, "return path" and lines 716-718 or 724-726
SegWalkBreak ==
    /\ InWalk
    /\ LET w == WalkBody(trace_skel, Head(todo), WalkRec)
       IN  /\ w.done
           /\ path_nodes' = w.path
           /\ pix_strokes' = AppendPath(pix_strokes, w.path)
    /\ todo' = Tail(todo)
    /\ pc' = IF pc = "seg_ends_walk" THEN "seg_ends" ELSE "seg_rest"
    /\ UNCHANGED <<trace_skel, edges, cur_node, trace_mode, min_stroke, strokes_mm, raised,
                   visited, prev_node, gridVars, serialVars, exportVars, polishVars, routeVars>>

\* line 720: the second sweep is over the cells not yet visited
SegSecondSweep ==
    /\ pc = "seg_ends"
    /\ todo = <<>>
    /\ todo' = RowMajor(trace_skel \ visited)
    /\ pc' = "seg_rest"
    /\ UNCHANGED <<trace_skel, edges, path_nodes, cur_node, trace_mode, min_stroke,
                   strokes_mm, raised, visited, pix_strokes, prev_node,
                   gridVars, serialVars, exportVars, polishVars, routeVars>>

\* lines 728-743
SegReturn ==
    /\ pc = "seg_rest"
    /\ todo = <<>>
    /\ \E m \in 0 .. MaxMinStroke :
           /\ min_stroke' = m
           /\ strokes_mm' = KeptStrokes(pix_strokes, m)
    /\ pc' = "traced"
    /\ UNCHANGED <<trace_skel, edges, path_nodes, cur_node, trace_mode, raised,
                   segVars, gridVars, serialVars, exportVars, polishVars, routeVars>>

TraceSegments ==
    \/ SegStart \/ SegSkip \/ SegWalkStart \/ SegWalkStep \/ SegWalkBreak
    \/ SegSecondSweep \/ SegReturn

\* _trace_skeleton_to_strokes applied to a skeleton on its own
SpecSegments == TraceInit /\ [][TraceSegments]_vars

\* lines 896-902
PipeReturn ==
    /\ pc = "traced"
    /\ IF strokes_mm = <<>>
       THEN raised' = "strokes" /\ pc' = "raised"
       ELSE raised' = raised /\ pc' = "returned"
    /\ UNCHANGED <<trace_skel, edges, path_nodes, cur_node, trace_mode, min_stroke, strokes_mm,
                   segVars, gridVars, serialVars, exportVars, polishVars,
                   routeVars>>

PipeNext ==
    \/ PipeRaster \/ PipeClose \/ ThinNext \/ PipeSkeleton
    \/ WalkNext \/ TraceSegments \/ PipeReturn

SpecPipeline == PipeInit /\ [][PipeNext]_vars

(***************************************************************************)
(* SpecScenario: the thinning and the tracers on sample masks              *)
(***************************************************************************)
\* --thin-max-iter default
ThinMaxIterDefault == 300

\* a filled block of h x w pixels with top-left pixel (r, c)
Block(r, c, h, w) ==
    {p \in Cells : r <= p[1] /\ p[1] < r + h /\ c <= p[2] /\ p[2] < c + w}

\* the L: a bar 2 mm wide and 10 mm long on the y axis and a bar 6 mm long and
\* 2 mm wide on the x axis, sharing the corner at the origin; k pixels per mm,
\* o pixels of margin (to_mm maps row to y and column to x)
LShape(k, o) == <<10 * k + 2 * o, 6 * k + 2 * o>>
LMask(k, o) == Block(o, o, 10 * k, 2 * k) \cup Block(o, o, 2 * k, 6 * k)

\* the bar on the y axis alone, on the same sheet
BarMask(k, o) == Block(o, o, 10 * k, 2 * k)

\* two squares of 3 mm, 3 mm apart
BlobsShape(k, o) == <<3 * k + 2 * o, 9 * k + 2 * o>>
BlobsMask(k, o) == Block(o, o, 3 * k, 3 * k) \cup Block(o, o + 6 * k, 3 * k, 3 * k)

Margins == 1 .. MaxMargin

IsScenarioA(o) == shape = LShape(10, o) /\ mask = LMask(10, o)
IsScenarioB == \E k \in 1 .. MaxPxPerMm, o \in Margins :
                   shape = BlobsShape(k, o) /\ mask = BlobsMask(k, o)

ScenarioInit ==
    /\ pc = "skeleton"
    /\ \E o \in Margins :
           \/ \E k \in (1 .. MaxPxPerMm) \cup {10} :
                  shape = LShape(k, o) /\ mask \in {LMask(k, o), BarMask(k, o)}
           \/ \E k \in 1 .. MaxPxPerMm :
                  shape = BlobsShape(k, o) /\ mask = BlobsMask(k, o)
    /\ max_iter = ThinMaxIterDefault
    /\ img = {} /\ it = 0 /\ changed = FALSE
    /\ thin_in = {} /\ iter_img = {} /\ skel = {} /\ dist = <<>>
    /\ MorphIdle
    /\ NonGridIdle

ScenarioNext ==
    \/ ThinStart \/ WhileEnter \/ WhileExit
    \/ SubIter1 \/ Clear1 \/ SubIter2 \/ Clear2
    \/ PipeSkeleton \/ WalkNext \/ TraceSegments \/ PipeReturn

SpecScenario == ScenarioInit /\ [][ScenarioNext]_vars

(***************************************************************************)
(* chaikin_smooth                                                          *)
(***************************************************************************)
\* the q and r points of the edges i, i+1, ... of out
RECURSIVE ChaikinEdges(_, _)
ChaikinEdges(out, i) ==
    IF i > Len(out) - 1 THEN <<>>
    ELSE LET x0 == out[i][1]
             y0 == out[i][2]
             x1 == out[i + 1][1]
             y1 == out[i + 1][2]
             q == <<(3 * x0 + x1) \div 4, (3 * y0 + y1) \div 4>>
             r == <<(x0 + 3 * x1) \div 4, (y0 + 3 * y1) \div 4>>
         IN  <<q, r>> \o ChaikinEdges(out, i + 1)

\* one round without new_pts.append(out[-1])
ChaikinRoundNoLast(out) == <<out[1]>> \o ChaikinEdges(out, 1)

ChaikinRound(out) == <<out[1]>> \o ChaikinEdges(out, 1) \o <<out[Len(out)]>>

RECURSIVE ChaikinRounds(_, _)
ChaikinRounds(out, n) ==
    IF n = 0 THEN out ELSE ChaikinRounds(ChaikinRound(out), n - 1)

chaikin_smooth(p, n) ==
    IF n <= 0 \/ Len(p) < 3 THEN p ELSE ChaikinRounds(p, n)

(***************************************************************************)
(* rdp_simplify                                                            *)
(***************************************************************************)
\* _perp_dist(p, a, b) squared, as the fraction <<numerator, denominator>>
perp_dist2(p, a, b) ==
    LET dx == b[1] - a[1]
        dy == b[2] - a[2]
        dot == (p[1] - a[1]) * dx + (p[2] - a[2]) * dy
        len2 == dx * dx + dy * dy
        cross == (p[1] - a[1]) * dy - (p[2] - a[2]) * dx
    IN  IF dx = 0 /\ dy = 0 THEN <<dist2(p, a), 1>>
        ELSE IF dot <= 0 THEN <<dist2(p, a), 1>>
        ELSE IF dot >= len2 THEN <<dist2(p, b), 1>>
        ELSE <<cross * cross, len2>>

\* d1 > d2 for two squared deviations
FracGreater(d1, d2) == d1[1] * d2[2] > d2[1] * d1[2]

\* d > e for a squared deviation d and a tolerance e > 0
ExceedsEps(d, e) == d[1] > e * e * d[2]

\* the loop of rec: the first index of a+1 .. b-1 with the largest deviation,
\* or 0 when the range is empty
FarthestIndex(p, a, b) ==
    IF b - a < 2 THEN 0
    ELSE CHOOSE i \in (a + 1) .. (b - 1) :
            /\ \A j \in (a + 1) .. (i - 1) :
                   FracGreater(perp_dist2(p[i], p[a], p[b]), perp_dist2(p[j], p[a], p[b]))
            /\ \A j \in (i + 1) .. (b - 1) :
                   ~FracGreater(perp_dist2(p[j], p[a], p[b]), perp_dist2(p[i], p[a], p[b]))

\* rec without its second recursive call rec(idx, b, keep)
RECURSIVE rec_left_only(_, _, _, _)
rec_left_only(p, e, a, b) ==
    LET idx == FarthestIndex(p, a, b)
    IN  IF idx # 0 /\ ExceedsEps(perp_dist2(p[idx], p[a], p[b]), e)
        THEN {idx} \cup rec_left_only(p, e, a, idx)
        ELSE {}

\* rec(a, b, keep): the indices it sets in keep
RECURSIVE rec(_, _, _, _)
rec(p, e, a, b) ==
    LET idx == FarthestIndex(p, a, b)
    IN  IF idx # 0 /\ ExceedsEps(perp_dist2(p[idx], p[a], p[b]), e)
        THEN {idx} \cup rec(p, e, a, idx) \cup rec(p, e, idx, b)
        ELSE {}

\* keep without keep[0] = keep[-1] = True
RdpKeepNoEnds(p, e) ==
    IF e <= 0 \/ Len(p) < 3 THEN 1 .. Len(p)
    ELSE rec(p, e, 1, Len(p))

\* the kept indices; on the early return every point is returned
RdpKeep(p, e) ==
    IF e <= 0 \/ Len(p) < 3 THEN 1 .. Len(p)
    ELSE {1, Len(p)} \cup rec(p, e, 1, Len(p))

\* [p for p, k in zip(pts, keep) if k]
RECURSIVE SelectKept(_, _, _)
SelectKept(p, k, i) ==
    IF i > Len(p) THEN <<>>
    ELSE (IF i \in k THEN <<p[i]>> ELSE <<>>) \o SelectKept(p, k, i + 1)

rdp_simplify(p, e) == SelectKept(p, RdpKeep(p, e), 1)

(***************************************************************************)
(* SpecSmooth: chaikin_smooth applied to a point list                      *)
(***************************************************************************)
SmoothInit ==
    /\ pc = "smooth"
    /\ pts \in SeqsUpTo(SmoothPoints, MaxPts)
    /\ iters = 0 /\ eps = 0 /\ keep = {} /\ out_pts = <<>>
    /\ GridIdle
    /\ RouteIdle
    /\ TraceIdle
    /\ SerialIdle
    /\ ExportIdle

Smooth ==
    /\ pc = "smooth"
    /\ \E n \in (-1) .. MaxSmooth :
           /\ iters' = n
           /\ out_pts' = chaikin_smooth(pts, n)
    /\ pc' = "smoothed"
    /\ UNCHANGED <<pts, eps, keep, gridVars, serialVars, exportVars, routeVars, traceVars>>

SpecSmooth == SmoothInit /\ [][Smooth]_vars

\* C9: smoothing keeps the first and the last point exactly, for every point
\* list and every iteration count (zero and negative included).
SmoothKeepsEnds ==
    (pc = "smoothed" /\ Len(pts) >= 1) =>
        /\ Len(out_pts) >= 1
        /\ out_pts[1] = pts[1]
        /\ out_pts[Len(out_pts)] = pts[Len(pts)]

\* two rounds of smoothing that moved the interior of a stroke
SmoothKeepsEndsWitness ==
    /\ pc = "smoothed"
    /\ iters >= 2
    /\ Len(pts) >= 3
    /\ Len(out_pts) > Len(pts)
    /\ pts[1] # pts[Len(pts)]
    /\ \E i \in 1 .. Len(out_pts) : \A j \in 1 .. Len(pts) : out_pts[i] # pts[j]

(***************************************************************************)
(* SpecSimplify: rdp_simplify applied to a point list                      *)
(***************************************************************************)
SimplifyInit ==
    /\ pc = "simplify"
    /\ pts \in SeqsUpTo(Points, MaxPts)
    /\ iters = 0 /\ eps = 0 /\ keep = {} /\ out_pts = <<>>
    /\ GridIdle
    /\ RouteIdle
    /\ TraceIdle
    /\ SerialIdle
    /\ ExportIdle

Simplify ==
    /\ pc = "simplify"
    /\ \E e \in (-1) .. MaxEps :
           /\ eps' = e
           /\ keep' = RdpKeep(pts, e)
           /\ out_pts' = rdp_simplify(pts, e)
    /\ pc' = "simplified"
    /\ UNCHANGED <<pts, iters, gridVars, serialVars, exportVars, routeVars, traceVars>>

SpecSimplify == SimplifyInit /\ [][Simplify]_vars

\* C7: simplification returns the input's first point first and its last
\* point last, for every eps and every input of at least two points.
SimplifyKeepsEnds ==
    (pc = "simplified" /\ Len(pts) >= 2) =>
        /\ Len(out_pts) >= 2
        /\ out_pts[1] = pts[1]
        /\ out_pts[Len(out_pts)] = pts[Len(pts)]

\* a simplification that dropped a point and kept an interior one
SimplifyKeepsEndsWitness ==
    /\ pc = "simplified"
    /\ eps > 0
    /\ Len(out_pts) < Len(pts)
    /\ Len(out_pts) >= 3
    /\ pts[1] # pts[Len(pts)]

\* C8: every dropped point deviates by at most eps from the chord between the
\* nearest kept point before it and the nearest kept point after it.
DroppedWithinEps ==
    pc = "simplified" =>
        \A i \in (1 .. Len(pts)) \ keep :
            LET a == CHOOSE k \in keep : k < i /\ \A j \in keep : j < i => j <= k
                b == CHOOSE k \in keep : k > i /\ \A j \in keep : j > i => j >= k
            IN  /\ \E k \in keep : k < i
                /\ \E k \in keep : k > i
                /\ ~ExceedsEps(perp_dist2(pts[i], pts[a], pts[b]), eps)

\* a dropped point off its chord, next to a kept interior point
DroppedWithinEpsWitness ==
    /\ pc = "simplified"
    /\ Cardinality(keep) >= 3
    /\ \E i \in (1 .. Len(pts)) \ keep :
           /\ i > 1 /\ i < Len(pts)
           /\ (i - 1 \in keep \/ i + 1 \in keep)
           /\ \E a \in keep, b \in keep :
                  a < i /\ i < b /\ perp_dist2(pts[i], pts[a], pts[b])[1] > 0

(***************************************************************************)
(* Route planning: costs                                                   *)
(***************************************************************************)
\* a cost k + sqrt(d2) is the pair <<k, d2>>

\* sqrt(b) - sqrt(d) < k, decided exactly
SqrtDiffLess(b, d, k) ==
    IF k = 0 THEN b < d
    ELSE IF k > 0
         THEN \/ b <= d
              \/ LET l == b - k * k - d
                 IN  l < 0 \/ l * l < 4 * k * k * d
         ELSE LET r == d - b - k * k
              IN  r > 0 /\ 4 * k * k * b < r * r

CostLess(c1, c2) == SqrtDiffLess(c1[2], c2[2], c2[1] - c1[1])

Max0(x) == IF x > 0 THEN x ELSE 0

\* cost_f / cost_r of reorder_strokes_lr
CostLR(pen, cur, pt) == <<pen * Max0(cur[1] - pt[1]), dist2(cur, pt)>>

\* cost_to(pt) of reorder_strokes_tlbr
CostTLBR(up, left, cur, pt) ==
    <<left * Max0(cur[1] - pt[1]) + up * Max0(cur[2] - pt[2]), dist2(cur, pt)>>

\* the cost of entering at pt from cur under par = [pol, lr, up, left]
EntryCostOf(par, cur, pt) ==
    IF par.pol = "lr" THEN CostLR(par.lr, cur, pt)
    ELSE CostTLBR(par.up, par.left, cur, pt)

ReorderPar == [pol |-> policy, lr |-> lr_penalty, up |-> up_penalty, left |-> left_penalty]

EntryCost(pt) == EntryCostOf(ReorderPar, cur_pt, pt)

(***************************************************************************)
(* Route planning: strokes                                                 *)
(***************************************************************************)
\* a stroke is its point sequence st.pts; the input strokes have two points
StrokeSet == {<<a, b>> : a \in RoutePoints, b \in RoutePoints}

Reverse(q) == [i \in 1 .. Len(q) |-> q[Len(q) + 1 - i]]

RECURSIVE MinOf(_)
MinOf(S) ==
    LET x == CHOOSE y \in S : TRUE
    IN  IF S = {x} THEN x ELSE Min2(x, MinOf(S \ {x}))

RECURSIVE MaxOf(_)
MaxOf(S) ==
    LET x == CHOOSE y \in S : TRUE
    IN  IF S = {x} THEN x
        ELSE LET m == MaxOf(S \ {x}) IN IF x > m THEN x ELSE m

\* stroke_bbox_x(st)[0] and stroke_bbox_y(st)[1]
BBoxMinX(st) == MinOf({st[i][1] : i \in 1 .. Len(st)})
BBoxMaxY(st) == MaxOf({st[i][2] : i \in 1 .. Len(st)})

\* key(s) < key(t) for the sort key of the policy
KeyLess(pol, s, t) ==
    IF pol = "lr" THEN BBoxMinX(s) < BBoxMinX(t)
    ELSE \/ -BBoxMaxY(s) < -BBoxMaxY(t)
         \/ (BBoxMaxY(s) = BBoxMaxY(t) /\ BBoxMinX(s) < BBoxMinX(t))

\* list.sort(key=...) is stable: s goes before the first element with a larger key
RECURSIVE InsertByKey(_, _, _)
InsertByKey(pol, sorted, s) ==
    IF sorted = <<>> THEN <<s>>
    ELSE IF KeyLess(pol, s, Head(sorted)) THEN <<s>> \o sorted
    ELSE <<Head(sorted)>> \o InsertByKey(pol, Tail(sorted), s)

RECURSIVE SortByKey(_, _, _)
SortByKey(pol, list, done) ==
    IF list = <<>> THEN done
    ELSE SortByKey(pol, Tail(list), InsertByKey(pol, done, Head(list)))

\* list.pop(i) leaves the list without a first element instead of without element i
RemoveFirst(list, i) == Tail(list)

\* the list after list.pop(i)
RemoveAt(list, i) == [k \in 1 .. Len(list) - 1 |-> IF k < i THEN list[k] ELSE list[k + 1]]

\* the scan of lines 991-1009 / 1040-1053 over rem from stroke i on, with the
\* pen at cur: best is [i |-> best_i, rev |-> best_rev, cost |-> best_cost];
\* i = 0 stands for best_i = -1 with best_cost = 1e18, which every cost of the
\* model is below
RECURSIVE ScanBestOf(_, _, _, _, _)
ScanBestOf(par, rem, cur, i, best) ==
    IF i > Len(rem) THEN best
    ELSE LET a == rem[i][1]
             b == rem[i][Len(rem[i])]
             cost_f == EntryCostOf(par, cur, a)
             cost_r == EntryCostOf(par, cur, b)
             b1 == IF best.i = 0 \/ CostLess(cost_f, best.cost)
                   THEN [i |-> i, rev |-> FALSE, cost |-> cost_f]
                   ELSE best
             b2 == IF CostLess(cost_r, b1.cost)
                   THEN [i |-> i, rev |-> TRUE, cost |-> cost_r]
                   ELSE b1
         IN  ScanBestOf(par, rem, cur, i + 1, b2)

\* the scan over the variable remaining
ScanBest(i, best) == ScanBestOf(ReorderPar, remaining, cur_pt, i, best)

NoBest == [i |-> 0, rev |-> FALSE, cost |-> <<0, 0>>]

\* while remaining: ... return ordered
RECURSIVE ReorderLoop(_, _, _, _)
ReorderLoop(par, rem, ord, cur) ==
    IF rem = <<>> THEN ord
    ELSE LET best == ScanBestOf(par, rem, cur, 1, NoBest)
             nxt == IF best.rev THEN Reverse(rem[best.i]) ELSE rem[best.i]
         IN  ReorderLoop(par, RemoveAt(rem, best.i), Append(ord, nxt), nxt[Len(nxt)])

\* either reorder function as a whole
reorder_strokes(par, S) ==
    IF S = <<>> THEN S
    ELSE LET sorted == SortByKey(par.pol, S, <<>>)
             first == Head(sorted)
         IN  ReorderLoop(par, Tail(sorted), <<first>>, first[Len(first)])

reorder_strokes_lr(S, pen) ==
    reorder_strokes([pol |-> "lr", lr |-> pen, up |-> 0, left |-> 0], S)

reorder_strokes_tlbr(S, up, left) ==
    reorder_strokes([pol |-> "tlbr", lr |-> 0, up |-> up, left |-> left], S)

(***************************************************************************)
(* force_left_to_right                                                     *)
(***************************************************************************)
\* the pass with the test a[0] < b[0]
force_left_to_right_strict(S) ==
    [i \in 1 .. Len(S) |->
        IF S[i][1][1] < S[i][Len(S[i])][1] THEN S[i] ELSE Reverse(S[i])]

force_left_to_right(S) ==
    [i \in 1 .. Len(S) |->
        IF S[i][1][1] <= S[i][Len(S[i])][1] THEN S[i] ELSE Reverse(S[i])]

(***************************************************************************)
(* stitch_strokes                                                          *)
(***************************************************************************)
\* the loop with the test _dist(cur[-1], st.pts[0]) < stitch_mm
RECURSIVE StitchLoopStrict(_, _, _, _)
StitchLoopStrict(rest, cur, out, t) ==
    IF rest = <<>> THEN Append(out, cur)
    ELSE LET st == Head(rest)
             gap2 == dist2(cur[Len(cur)], st[1])
         IN  IF gap2 < t * t
             THEN StitchLoopStrict(Tail(rest),
                                   (IF gap2 > 0 THEN Append(cur, st[1]) ELSE cur) \o Tail(st),
                                   out, t)
             ELSE StitchLoopStrict(Tail(rest), st, Append(out, cur), t)

\* the loop with the gap measured from cur[0] instead of cur[-1]
RECURSIVE StitchLoopFromFirst(_, _, _, _)
StitchLoopFromFirst(rest, cur, out, t) ==
    IF rest = <<>> THEN Append(out, cur)
    ELSE LET st == Head(rest)
             gap2 == dist2(cur[1], st[1])
         IN  IF gap2 <= t * t
             THEN StitchLoopFromFirst(Tail(rest),
                                      (IF gap2 > 0 THEN Append(cur, st[1]) ELSE cur) \o Tail(st),
                                      out, t)
             ELSE StitchLoopFromFirst(Tail(rest), st, Append(out, cur), t)

\* the loop over strokes[1:], with cur and out
RECURSIVE StitchLoop(_, _, _, _)
StitchLoop(rest, cur, out, t) ==
    IF rest = <<>> THEN Append(out, cur)
    ELSE LET st == Head(rest)
             gap2 == dist2(cur[Len(cur)], st[1])
         IN  IF gap2 <= t * t
             THEN StitchLoop(Tail(rest),
                             (IF gap2 > 0 THEN Append(cur, st[1]) ELSE cur) \o Tail(st),
                             out, t)
             ELSE StitchLoop(Tail(rest), st, Append(out, cur), t)

\* the early return taken for stitch_mm < 0 only
stitch_strokes_strict_guard(S, t) ==
    IF t < 0 \/ S = <<>> THEN S
    ELSE StitchLoop(Tail(S), S[1], <<>>, t)

stitch_strokes(S, t) ==
    IF t <= 0 \/ S = <<>> THEN S
    ELSE StitchLoop(Tail(S), S[1], <<>>, t)

(***************************************************************************)
(* bridge_strokes                                                          *)
(***************************************************************************)
\* the loop without the test _dist(cur[-1], st.pts[0]) > 1e-9
RECURSIVE BridgeLoopKeepPoint(_, _, _, _)
BridgeLoopKeepPoint(rest, cur, out, t) ==
    IF rest = <<>> THEN Append(out, cur)
    ELSE LET st == Head(rest)
             gap2 == dist2(cur[Len(cur)], st[1])
         IN  IF gap2 <= t * t
             THEN BridgeLoopKeepPoint(Tail(rest), Append(cur, st[1]) \o Tail(st), out, t)
             ELSE BridgeLoopKeepPoint(Tail(rest), st, Append(out, cur), t)

\* lines 1109-1117: the loop over strokes[1:], with cur and out
RECURSIVE BridgeLoop(_, _, _, _)
BridgeLoop(rest, cur, out, t) ==
    IF rest = <<>> THEN Append(out, cur)
    ELSE LET st == Head(rest)
             gap2 == dist2(cur[Len(cur)], st[1])
         IN  IF gap2 <= t * t
             THEN BridgeLoop(Tail(rest),
                             (IF gap2 > 0 THEN Append(cur, st[1]) ELSE cur) \o Tail(st),
                             out, t)
             ELSE BridgeLoop(Tail(rest), st, Append(out, cur), t)

bridge_strokes(S, t) ==
    IF t <= 0 \/ S = <<>> THEN S
    ELSE BridgeLoop(Tail(S), S[1], <<>>, t)

(***************************************************************************)
(* SpecReorder, SpecStitch: route planning passes applied to a stroke list *)
(***************************************************************************)
RouteInit ==
    /\ pc = "route"
    /\ strokes \in SeqsUpTo(StrokeSet, MaxStrokes)
    /\ ReorderIdle
    /\ stitch_mm = 0
    /\ out_strokes = <<>>
    /\ args = NoArgs
    /\ GridIdle
    /\ PolishIdle
    /\ TraceIdle
    /\ SerialIdle
    /\ ExportIdle

\* lines 974-984 / 1023-1033: the early return, or sort, pop(0) and append
ReorderStart(pol, lr, up, left) ==
    /\ pc = "route"
    /\ policy' = pol
    /\ lr_penalty' = lr
    /\ up_penalty' = up
    /\ left_penalty' = left
    /\ IF strokes = <<>>
       THEN /\ out_strokes' = strokes
            /\ pc' = "reordered"
            /\ UNCHANGED <<remaining, ordered, cur_pt>>
       ELSE LET sorted == SortByKey(pol, strokes, <<>>)
                cur == Head(sorted)
            IN  /\ remaining' = RemoveAt(sorted, 1)
                /\ ordered' = <<cur>>
                /\ cur_pt' = cur[Len(cur)]
                /\ pc' = "reorder_loop"
                /\ UNCHANGED out_strokes
    /\ UNCHANGED <<strokes, stitch_mm, args, gridVars, serialVars, exportVars, polishVars,
                   traceVars>>

\* a penalty is switched off or is PenaltyWeight per unit
Penalties == {0, PenaltyWeight}

ReorderLRStart ==
    \E pen \in Penalties : ReorderStart("lr", pen, 0, 0)

ReorderTLBRStart ==
    \E up \in Penalties, left \in Penalties : ReorderStart("tlbr", 0, up, left)

\* an iteration that appends the chosen stroke as stored, never reversed
ReorderStepNoReverse ==
    /\ pc = "reorder_loop"
    /\ remaining # <<>>
    /\ LET best == ScanBest(1, NoBest)
           nxt == remaining[best.i]
       IN  /\ remaining' = RemoveAt(remaining, best.i)
           /\ ordered' = Append(ordered, nxt)
           /\ cur_pt' = nxt[Len(nxt)]
    /\ UNCHANGED <<pc, strokes, policy, lr_penalty, up_penalty, left_penalty,
                   stitch_mm, out_strokes, args, gridVars, serialVars, exportVars, polishVars,
                   traceVars>>

\* one iteration of while remaining
ReorderStep ==
    /\ pc = "reorder_loop"
    /\ remaining # <<>>
    /\ LET best == ScanBest(1, NoBest)
           nxt == IF best.rev THEN Reverse(remaining[best.i]) ELSE remaining[best.i]
       IN  /\ remaining' = RemoveAt(remaining, best.i)
           /\ ordered' = Append(ordered, nxt)
           /\ cur_pt' = nxt[Len(nxt)]
    /\ UNCHANGED <<pc, strokes, policy, lr_penalty, up_penalty, left_penalty,
                   stitch_mm, out_strokes, args, gridVars, serialVars, exportVars, polishVars,
                   traceVars>>

\* return ordered
ReorderReturn ==
    /\ pc = "reorder_loop"
    /\ remaining = <<>>
    /\ out_strokes' = ordered
    /\ pc' = "reordered"
    /\ UNCHANGED <<strokes, reorderVars, stitch_mm, args, gridVars, serialVars, exportVars, polishVars,
                   traceVars>>

Stitch ==
    /\ pc = "route"
    /\ \E t \in (-1) .. MaxStitch :
           /\ stitch_mm' = t
           /\ out_strokes' = stitch_strokes(strokes, t)
    /\ pc' = "stitched"
    /\ UNCHANGED <<strokes, reorderVars, args, gridVars, serialVars, exportVars, polishVars,
                   traceVars>>

ReorderNext == ReorderLRStart \/ ReorderTLBRStart \/ ReorderStep \/ ReorderReturn

SpecReorder == RouteInit /\ [][ReorderNext]_vars

StitchNext == Stitch

SpecStitch == RouteInit /\ [][StitchNext]_vars

\* bridge_strokes applied to the stroke list
Bridge ==
    /\ pc = "route"
    /\ \E t \in (-1) .. MaxStitch :
           /\ args' = [args EXCEPT !.bridge_mm = t]
           /\ out_strokes' = bridge_strokes(strokes, t)
    /\ pc' = "bridged"
    /\ UNCHANGED <<strokes, reorderVars, stitch_mm, gridVars, serialVars, exportVars, polishVars,
                   traceVars>>

BridgeNext == Stitch \/ Bridge

SpecBridge == RouteInit /\ [][BridgeNext]_vars

(***************************************************************************)
(* SpecMain: the "Order + stitch" block of main on the polished strokes;   *)
(* out_strokes is main's strokes_mm                                        *)
(***************************************************************************)
\* the options: a penalty is set only with its pass, a threshold is 0 or MaxStitch
MainArgs ==
    {a \in [optimize_lr : BOOLEAN, lr_penalty : Penalties, force_lr : BOOLEAN,
            optimize_tlbr : BOOLEAN, tlbr_penalty_up : Penalties,
            tlbr_penalty_left : Penalties,
            stitch_mm : {0, MaxStitch}, bridge_mm : {0, MaxStitch}] :
        /\ ~a.optimize_lr => a.lr_penalty = 0
        /\ ~a.optimize_tlbr => (a.tlbr_penalty_up = 0 /\ a.tlbr_penalty_left = 0)}

MainInit ==
    /\ pc = "main_optimize_lr"
    /\ strokes \in SeqsUpTo(StrokeSet, MaxStrokes - 1)
    /\ out_strokes = strokes
    /\ args \in MainArgs
    /\ ReorderIdle
    /\ stitch_mm = 0
    /\ GridIdle
    /\ PolishIdle
    /\ TraceIdle
    /\ SerialIdle
    /\ ExportIdle

\* a line "if option: strokes_mm = pass(list(strokes_mm), ...)" of main
MainPass(here, enabled, result, there) ==
    /\ pc = here
    /\ out_strokes' = IF enabled THEN result ELSE out_strokes
    /\ pc' = there
    /\ UNCHANGED <<strokes, reorderVars, stitch_mm, args, gridVars, serialVars, exportVars, polishVars, traceVars>>

\* lines 1402-1403
MainOptimizeLR ==
    MainPass("main_optimize_lr", args.optimize_lr,
             reorder_strokes_lr(out_strokes, args.lr_penalty), "main_force_lr")

\* lines 1404-1405
MainForceLR ==
    MainPass("main_force_lr", args.force_lr,
             force_left_to_right(out_strokes), "main_optimize_tlbr")

\* lines 1406-1407
MainOptimizeTLBR ==
    MainPass("main_optimize_tlbr", args.optimize_tlbr,
             reorder_strokes_tlbr(out_strokes, args.tlbr_penalty_up,
                                  args.tlbr_penalty_left), "main_stitch")

\* lines 1408-1409
MainStitch ==
    MainPass("main_stitch", args.stitch_mm > 0,
             stitch_strokes(out_strokes, args.stitch_mm), "main_bridge")

\* lines 1410-1411
MainBridge ==
    MainPass("main_bridge", args.bridge_mm > 0,
             bridge_strokes(out_strokes, args.bridge_mm), "main_routed")

MainNext ==
    \/ MainOptimizeLR \/ MainForceLR \/ MainOptimizeTLBR \/ MainStitch \/ MainBridge

SpecMain == MainInit /\ [][MainNext]_vars

(***************************************************************************)
(* SpecSerial: SerialReader._read_line_blocking of tools/serial_plot.py.   *)
(* A line is a sequence of bytes; None is <<>> and a returned text t is    *)
(* <<t>>.                                                                  *)
(***************************************************************************)
\* a byte is a printable character, a line end (white space) or a byte that
\* does not decode
SerialBytes == {"a", "nl", "bad"}

\* what readline can return besides b""
RawLines == UNION {[1 .. n -> SerialBytes] : n \in 1 .. MaxLineLen}

\* raw.decode(errors="ignore")
Decode(raw) ==
    LET Decodes(b) == b # "bad"
    IN  SelectSeq(raw, Decodes)

IsSpace(c) == c = "nl"

\* text.lstrip()
StripLeading(t) ==
    LET ns == {i \in 1 .. Len(t) : ~IsSpace(t[i])}
    IN  IF ns = {} THEN <<>> ELSE SubSeq(t, MinOf(ns), Len(t))

\* text.strip()
Strip(t) ==
    LET ns == {i \in 1 .. Len(t) : ~IsSpace(t[i])}
    IN  IF ns = {} THEN <<>> ELSE SubSeq(t, MinOf(ns), MaxOf(ns))

\* lines 94-98: the value returned when readline gave raw
ReadResult(raw) ==
    IF raw = <<>> THEN <<>>
    ELSE LET text == Strip(Decode(raw))
         IN  IF text = <<>> THEN <<>> ELSE <<text>>

SerialInit ==
    /\ pc = "serial"
    /\ SerialIdle
    /\ ExportIdle
    /\ GridIdle
    /\ PolishIdle
    /\ RouteIdle
    /\ TraceIdle

\* open(): self._ser = serial.Serial(...)
SerialOpen ==
    /\ pc = "serial"
    /\ ser' = "open"
    /\ UNCHANGED <<pc, line, received, returned, gridVars, polishVars, routeVars, traceVars,
                   exportVars, readerVars>>

\* close(): self._ser = None
SerialClose ==
    /\ pc = "serial"
    /\ ser = "open"
    /\ ser' = "None"
    /\ UNCHANGED <<pc, line, received, returned, gridVars, polishVars, routeVars, traceVars,
                   exportVars, readerVars>>

\* a call of _read_line_blocking; the port gives b"" (nothing within the
\* timeout) or a line
ReadLineBlocking ==
    /\ pc = "serial"
    /\ IF ser = "None"
       THEN line' = <<>> /\ UNCHANGED <<received, returned>>
       ELSE \E raw \in {<<>>} \cup (IF Len(received) < MaxReads THEN RawLines ELSE {}) :
                /\ line' = ReadResult(raw)
                /\ received' = IF raw = <<>> THEN received ELSE Append(received, raw)
                /\ returned' = IF ReadResult(raw) = <<>> THEN returned
                               ELSE Append(returned, ReadResult(raw)[1])
    /\ UNCHANGED <<pc, ser, gridVars, polishVars, routeVars, traceVars,
                   exportVars, readerVars>>

SerialNext == SerialOpen \/ SerialClose \/ ReadLineBlocking

SpecSerial == SerialInit /\ [][SerialNext]_vars

(***************************************************************************)
(* SpecReader: a SerialReader with its caller (open, close, get_lines) and *)
(* its reader threads, interleaved statement by statement.  A line is the  *)
(* number of its delivery by the port; time stamps are left out.           *)
(***************************************************************************)
\* line 49: deque(maxlen=10000)
LinesMaxLen == 10000

\* self._lines.append(x)
DequeAppend(q, x) == IF Len(q) >= LinesMaxLen THEN Append(Tail(q), x) ELSE Append(q, x)

Alive == {t \in 1 .. Len(readers) : readers[t].at # "dead"}

ReaderInit ==
    /\ pc = "reader"
    /\ SerialIdle
    /\ ExportIdle
    /\ GridIdle
    /\ PolishIdle
    /\ RouteIdle
    /\ TraceIdle

ReaderRest == <<pc, line, returned, gridVars, polishVars, routeVars, traceVars, exportVars>>

\* a call of open() or close() begins; open() begins with close()
CallBegin ==
    /\ pc = "reader"
    /\ call.fn = "idle"
    /\ \E fn \in {"close"} \cup (IF Len(readers) < MaxThreads THEN {"open"} ELSE {}) :
           call' = [fn |-> fn, at |-> "set"]
    /\ UNCHANGED <<ser, received, stop, thread, readers, lines, got, ReaderRest>>

\* close(): self._stop.set() and the test of self._thread
CloseSetStop ==
    /\ pc = "reader"
    /\ call.fn # "idle" /\ call.at = "set"
    /\ stop' = TRUE
    /\ call' = [call EXCEPT !.at = IF thread # 0 THEN "join" ELSE "ser"]
    /\ UNCHANGED <<ser, received, thread, readers, lines, got, ReaderRest>>

\* close(): join returns because the thread has ended
CloseJoined ==
    /\ pc = "reader"
    /\ call.fn # "idle" /\ call.at = "join"
    /\ readers[thread].at = "dead"
    /\ thread' = 0
    /\ call' = [call EXCEPT !.at = "ser"]
    /\ UNCHANGED <<ser, received, stop, readers, lines, got, ReaderRest>>

\* close(): join(timeout=1.0) returns while the thread has not ended
CloseJoinTimeout ==
    /\ pc = "reader"
    /\ call.fn # "idle" /\ call.at = "join"
    /\ readers[thread].at # "dead"
    /\ thread' = 0
    /\ call' = [call EXCEPT !.at = "ser"]
    /\ UNCHANGED <<ser, received, stop, readers, lines, got, ReaderRest>>

\* close(): the port is closed and self._ser = None
CloseSer ==
    /\ pc = "reader"
    /\ call.fn # "idle" /\ call.at = "ser"
    /\ ser' = "None"
    /\ call' = [call EXCEPT !.at = "clear"]
    /\ UNCHANGED <<received, stop, thread, readers, lines, got, ReaderRest>>

\* close(): self._stop.clear(); close() returns
CloseClear ==
    /\ pc = "reader"
    /\ call.fn # "idle" /\ call.at = "clear"
    /\ stop' = FALSE
    /\ call' = IF call.fn = "close" THEN [fn |-> "idle", at |-> "close"]
               ELSE [call EXCEPT !.at = "serial"]
    /\ UNCHANGED <<ser, received, thread, readers, lines, got, ReaderRest>>

\* open(): self._ser = serial.Serial(...)
OpenSerial ==
    /\ pc = "reader"
    /\ call.fn = "open" /\ call.at = "serial"
    /\ ser' = "open"
    /\ call' = [call EXCEPT !.at = "start"]
    /\ UNCHANGED <<received, stop, thread, readers, lines, got, ReaderRest>>

\* open(): _start_thread(); open() returns
OpenStart ==
    /\ pc = "reader"
    /\ call.fn = "open" /\ call.at = "start"
    /\ IF thread # 0 /\ thread \in Alive
       THEN UNCHANGED <<thread, readers>>
       ELSE /\ readers' = Append(readers, [at |-> "check", line |-> 0])
            /\ thread' = Len(readers) + 1
    /\ call' = [fn |-> "idle", at |-> "open"]
    /\ UNCHANGED <<ser, received, stop, lines, got, ReaderRest>>

\* get_lines(max_lines): the loop runs with the lock held
GetLines ==
    /\ pc = "reader"
    /\ call.fn = "idle"
    /\ Len(got) < MaxGets
    /\ \E max_lines \in 0 .. MaxGetLines :
           LET n == IF Len(lines) < max_lines THEN Len(lines) ELSE max_lines
           IN  /\ got' = Append(got, [max_lines |-> max_lines, out |-> SubSeq(lines, 1, n)])
               /\ lines' = SubSeq(lines, n + 1, Len(lines))
    /\ UNCHANGED <<ser, received, stop, thread, readers, call, ReaderRest>>

\* _read_loop: "while not self._stop.is_set()"
ReaderCheck(t) ==
    /\ pc = "reader"
    /\ readers[t].at = "check"
    /\ readers' = [readers EXCEPT ![t].at = IF stop THEN "dead" ELSE "enter"]
    /\ UNCHANGED <<ser, received, stop, thread, lines, call, got, ReaderRest>>

\* _read_line_blocking: "if self._ser is None: return None", then "continue"
ReaderEnter(t) ==
    /\ pc = "reader"
    /\ readers[t].at = "enter"
    /\ readers' = [readers EXCEPT ![t].at = IF ser = "None" THEN "check" ELSE "readline"]
    /\ UNCHANGED <<ser, received, stop, thread, lines, call, got, ReaderRest>>

\* self._ser.readline() gives nothing or a blank line: None, "continue"
ReaderNoLine(t) ==
    /\ pc = "reader"
    /\ readers[t].at = "readline"
    /\ ser = "open"
    /\ readers' = [readers EXCEPT ![t].at = "check"]
    /\ UNCHANGED <<ser, received, stop, thread, lines, call, got, ReaderRest>>

\* self._ser.readline() gives the port's next line
ReaderLine(t) ==
    /\ pc = "reader"
    /\ readers[t].at = "readline"
    /\ ser = "open"
    /\ Len(received) < MaxReads
    /\ received' = Append(received, Len(received) + 1)
    /\ readers' = [readers EXCEPT ![t] = [at |-> "append", line |-> Len(received) + 1]]
    /\ UNCHANGED <<ser, stop, thread, lines, call, got, ReaderRest>>

\* self._ser.readline() raises, self._ser being None by now: the handler
\* sets self._stop and the thread ends
ReaderRaise(t) ==
    /\ pc = "reader"
    /\ readers[t].at = "readline"
    /\ ser = "None"
    /\ stop' = TRUE
    /\ readers' = [readers EXCEPT ![t].at = "dead"]
    /\ UNCHANGED <<ser, received, thread, lines, call, got, ReaderRest>>

\* "with self._lock: self._lines.append((ts, line))"
ReaderAppend(t) ==
    /\ pc = "reader"
    /\ readers[t].at = "append"
    /\ lines' = DequeAppend(lines, readers[t].line)
    /\ readers' = [readers EXCEPT ![t].at = "check"]
    /\ UNCHANGED <<ser, received, stop, thread, call, got, ReaderRest>>

ReaderStep ==
    \E t \in 1 .. Len(readers) :
        \/ ReaderCheck(t) \/ ReaderEnter(t) \/ ReaderNoLine(t) \/ ReaderLine(t)
        \/ ReaderRaise(t) \/ ReaderAppend(t)

ReaderNext ==
    \/ CallBegin \/ CloseSetStop \/ CloseJoined \/ CloseJoinTimeout \/ CloseSer
    \/ CloseClear \/ OpenSerial \/ OpenStart \/ GetLines \/ ReaderStep

SpecReader == ReaderInit /\ [][ReaderNext]_vars

(***************************************************************************)
(* SpecExport: PlotProgramExporter.to_plot_cmds, one step per stroke.  A   *)
(* coordinate is a fraction <<numerator, denominator>> in lowest terms.    *)
(***************************************************************************)
\* --pen-settle-ms default
PenSettleMsDefault == 50

RECURSIVE Gcd(_, _)
Gcd(a, b) == IF b = 0 THEN a ELSE Gcd(b, a % b)

Frac(n, d) == LET g == Gcd(n, d) IN <<n \div g, d \div g>>

\* _lerp(a, b, s / steps) for integers a and b
lerp(a, b, s, steps) == Frac(a * (steps - s) + b * s, steps)

\* int(math.ceil(d / max_step)) for d = sqrt(d2) > max_step
StepsFor(d2, max_step) ==
    CHOOSE n \in 1 .. d2 :
        /\ d2 <= n * n * max_step * max_step
        /\ d2 > (n - 1) * (n - 1) * max_step * max_step

\* lines 125-134: what one point b after a adds to out
ResampleSegment(a, b, max_step) ==
    IF dist2(a, b) <= max_step * max_step THEN << <<Frac(b[1], 1), Frac(b[2], 1)>> >>
    ELSE LET steps == StepsFor(dist2(a, b), max_step)
         IN  [s \in 1 .. steps |-> <<lerp(a[1], b[1], s, steps), lerp(a[2], b[2], s, steps)>>]

RECURSIVE ResampleFrom(_, _, _)
ResampleFrom(points, i, max_step) ==
    IF i > Len(points) THEN <<>>
    ELSE ResampleSegment(points[i - 1], points[i], max_step)
             \o ResampleFrom(points, i + 1, max_step)

\* _resample_polyline(points, max_step)
resample_polyline(points, max_step) ==
    IF points = <<>> THEN <<>>
    ELSE IF max_step <= 0 THEN [i \in 1 .. Len(points) |-> <<Frac(points[i][1], 1), Frac(points[i][2], 1)>>]
    ELSE << <<Frac(points[1][1], 1), Frac(points[1][2], 1)>> >> \o ResampleFrom(points, 2, max_step)

PlotCmd(p, pen, dwell) == [x_mm |-> p[1], y_mm |-> p[2], pen_down |-> pen, dwell_ms |-> dwell]

\* the commands of a stroke without the pen-up travel to its first point
StrokeCmdsNoTravel(rs, settle, dwell) ==
    <<PlotCmd(rs[1], 1, settle)>>
        \o [k \in 1 .. Len(rs) - 1 |-> PlotCmd(rs[k + 1], 1, dwell)]
        \o <<PlotCmd(rs[Len(rs)], 0, 0)>>

\* lines 1145-1153: the commands of a stroke with resampled points rs
StrokeCmds(rs, settle, dwell) ==
    <<PlotCmd(rs[1], 0, 0), PlotCmd(rs[1], 1, settle)>>
        \o [k \in 1 .. Len(rs) - 1 |-> PlotCmd(rs[k + 1], 1, dwell)]
        \o <<PlotCmd(rs[Len(rs)], 0, 0)>>

\* strokes of no, one, two and three points
ExportStrokeSet ==
    {<<>>} \cup {<<a>> : a \in RoutePoints} \cup StrokeSet
        \cup {<<a, <<0, 0>>, a>> : a \in RoutePoints}

ExportInit ==
    /\ pc = "export"
    /\ out_strokes \in SeqsUpTo(ExportStrokeSet, MaxStrokes - 1)
    /\ poly_step_mm \in 0 .. MaxPolyStep
    /\ pen_settle_ms \in {0, PenSettleMsDefault}
    /\ segment_dwell_ms \in {0, MaxDwell}
    /\ si = 0
    /\ cmds = <<>>
    /\ strokes = <<>> /\ ReorderIdle /\ stitch_mm = 0 /\ args = NoArgs
    /\ GridIdle
    /\ PolishIdle
    /\ TraceIdle
    /\ SerialIdle

\* lines 1141-1143: a stroke with fewer than two resampled points
ExportSkip ==
    /\ pc = "export"
    /\ si < Len(out_strokes)
    /\ Len(resample_polyline(out_strokes[si + 1], poly_step_mm)) < 2
    /\ si' = si + 1
    /\ UNCHANGED <<pc, cmds, poly_step_mm, pen_settle_ms, segment_dwell_ms, gridVars,
                   polishVars, routeVars, traceVars, serialVars>>

\* lines 1141-1153: a stroke's commands
ExportStroke ==
    /\ pc = "export"
    /\ si < Len(out_strokes)
    /\ LET rs == resample_polyline(out_strokes[si + 1], poly_step_mm)
       IN  /\ Len(rs) >= 2
           /\ cmds' = cmds \o StrokeCmds(rs, pen_settle_ms, segment_dwell_ms)
    /\ si' = si + 1
    /\ UNCHANGED <<pc, poly_step_mm, pen_settle_ms, segment_dwell_ms, gridVars,
                   polishVars, routeVars, traceVars, serialVars>>

\* line 1158
ExportReturn ==
    /\ pc = "export"
    /\ si = Len(out_strokes)
    /\ pc' = "exported"
    /\ UNCHANGED <<exportVars, gridVars, polishVars, routeVars, traceVars, serialVars>>

ExportNext == ExportSkip \/ ExportStroke \/ ExportReturn

SpecExport == ExportInit /\ [][ExportNext]_vars

Injections(n) == {f \in [1 .. n -> 1 .. n] : \A i, j \in 1 .. n : f[i] = f[j] => i = j}

\* C6: the reordered list holds each input stroke exactly once, its points
\* unchanged or exactly reversed (both reorder functions).
ReorderPreservesStrokes ==
    pc = "reordered" =>
        /\ Len(out_strokes) = Len(strokes)
        /\ \E f \in Injections(Len(strokes)) :
               \A i \in 1 .. Len(strokes) :
                   \/ out_strokes[i] = strokes[f[i]]
                   \/ out_strokes[i] = Reverse(strokes[f[i]])

\* three strokes returned in another order, one of them reversed
ReorderPreservesStrokesWitness ==
    /\ pc = "reordered"
    /\ Len(strokes) = 3
    /\ \A i \in 1 .. 3 : out_strokes[i] # strokes[i]
    /\ \E i \in 1 .. 3 : \A j \in 1 .. 3 : out_strokes[i] # strokes[j]
    /\ \A i, j \in 1 .. 3 : i # j => strokes[i] # strokes[j] /\ strokes[i] # Reverse(strokes[j])

\* C10: stitching with threshold 0 returns the stroke list unchanged, also
\* when consecutive strokes have coincident end and start points.
StitchZeroNoOp ==
    (pc = "stitched" /\ stitch_mm = 0) => out_strokes = strokes

\* threshold 0 on a list whose consecutive strokes all touch
StitchZeroNoOpWitness ==
    /\ pc = "stitched"
    /\ stitch_mm = 0
    /\ Len(strokes) = 3
    /\ \A i \in 1 .. 2 : strokes[i][Len(strokes[i])] = strokes[i + 1][1]

(***************************************************************************)
(* Stitching: which consecutive strokes are merged                         *)
(***************************************************************************)
\* squared gap between the last point of stroke i - 1 and the first of stroke i
Gap2(i) == dist2(strokes[i - 1][Len(strokes[i - 1])], strokes[i][1])

\* distance <= threshold, for a squared distance g2
WithinThreshold(g2, t) == t >= 0 /\ g2 <= t * t

\* the input strokes that begin an output stroke when exactly the gaps within
\* the threshold are merged
RunStarts == {1} \cup {i \in 2 .. Len(strokes) : ~WithinThreshold(Gap2(i), stitch_mm)}

\* the last stroke of the run that starts at b
RunEnd(b) ==
    IF \E j \in RunStarts : j > b
    THEN (CHOOSE j \in RunStarts : j > b /\ \A k \in RunStarts : k > b => k >= j) - 1
    ELSE Len(strokes)

\* strokes b .. e joined: the first point of a stroke is dropped when it
\* coincides with the point before it
RECURSIVE JoinRun(_, _)
JoinRun(b, e) ==
    IF e = b THEN strokes[b]
    ELSE JoinRun(b, e - 1) \o (IF Gap2(e) > 0 THEN strokes[e] ELSE Tail(strokes[e]))

\* the k-th smallest run start
RunStart(k) == CHOOSE b \in RunStarts : Cardinality({j \in RunStarts : j <= b}) = k

MergedExactlyWithinThreshold ==
    /\ Len(out_strokes) = Cardinality(RunStarts)
    /\ \A k \in 1 .. Len(out_strokes) :
           out_strokes[k] = JoinRun(RunStart(k), RunEnd(RunStart(k)))

\* C11 as stated: for every threshold, consecutive strokes are merged exactly
\* when the gap from the current stroke's last point to the next stroke's
\* first point is <= the threshold.
StitchMergesWithinThreshold ==
    (pc = "stitched" /\ strokes # <<>>) => MergedExactlyWithinThreshold

\* C11 amended: for a threshold > 0 consecutive strokes are merged exactly
\* when the gap is <= the threshold (a gap of Step merges at Step + 1 and
\* stays at Step - 1); for a threshold <= 0 no strokes are merged.
StitchMergesPositiveThreshold ==
    (pc = "stitched" /\ strokes # <<>>) =>
        IF stitch_mm > 0 THEN MergedExactlyWithinThreshold
        ELSE out_strokes = strokes

\* two strokes whose ends are Step apart, stitched into one at Step + 1
StitchMergesPositiveThresholdWitness ==
    /\ pc = "stitched"
    /\ Len(strokes) = 2
    /\ Gap2(2) = Step * Step
    /\ stitch_mm = Step + 1
    /\ Len(out_strokes) = 1
    /\ Len(out_strokes[1]) = 4

(***************************************************************************)
(* Single-walk tracing                                                     *)
(***************************************************************************)
\* a measure every loop iteration decreases: two per unused edge, one more
\* while the pen stands on a pixel without unused edge
WalkVariant ==
    IF pc # "walk_loop" THEN -1
    ELSE 2 * Cardinality(edges)
         + (IF has_remaining_edge(trace_skel, edges, cur_node) THEN 0 ELSE 1)

\* C14: for every skeleton with at least one pair of 8-adjacent pixels the
\* single-walk tracer ends (while edges remain the loop finds an edge at cur
\* or a pixel to jump to, and every iteration decreases a measure bounded
\* below), returns exactly one stroke, and has then consumed every skeleton
\* edge.
WalkTerminatesOneStroke ==
    /\ []((pc = "traced" /\ trace_mode = "walk" /\ SkelEdges(trace_skel) # {}) =>
              (Len(strokes_mm) = 1 /\ edges = {}))
    /\ []((pc = "walk_loop" /\ edges # {}) =>
              \/ has_remaining_edge(trace_skel, edges, cur_node)
              \/ remaining_nodes(trace_skel, edges) # <<>>)
    /\ [][(pc = "walk_loop") => (WalkVariant' < WalkVariant)]_vars
    /\ [][(pc = "walk_loop") => (edges' \subseteq edges)]_vars

\* a walk over two components: it jumped and came to an end
WalkTerminatesOneStrokeWitness ==
    /\ pc = "traced"
    /\ trace_mode = "walk"
    /\ Len(strokes_mm) = 1
    /\ edges = {}
    /\ Len(path_nodes) > Cardinality(SkelEdges(trace_skel)) + 1
    /\ NumComponents(trace_skel) = 2

(***************************************************************************)
(* The pipeline's errors                                                   *)
(***************************************************************************)
TracerIdle ==
    /\ trace_skel = {} /\ trace_mode = "" /\ strokes_mm = <<>> /\ path_nodes = <<>>
    /\ visited = {} /\ pix_strokes = <<>> /\ todo = <<>>

\* C13: the pipeline raises when the rasterized mask is empty, when the
\* skeleton is empty, or when tracing left no stroke, each check before the
\* next stage runs, and an error ends the call; in every other case it
\* returns a non-empty list of strokes of at least 2 points each.
PipelineNeverPartial ==
    /\ [][(pc = "pipeline" /\ mask = {}) => (raised' = "mask")]_vars
    /\ [][(SkeletonReady /\ FinalSkeleton = {}) => (raised' = "skeleton")]_vars
    /\ [][(pc = "traced" /\ strokes_mm = <<>>) => (raised' = "strokes")]_vars
    /\ [][(pc = "raised") => FALSE]_vars
    /\ [](raised # "" => pc = "raised")
    /\ [](raised = "mask" => (mask = {} /\ radius_px = 0 /\ img = {} /\ skel = {} /\ TracerIdle))
    /\ [](raised = "skeleton" => (mask # {} /\ TracerIdle))
    /\ [](raised = "strokes" => (mask # {} /\ trace_skel # {} /\ strokes_mm = <<>>))
    /\ [](pc = "returned" =>
              /\ raised = ""
              /\ mask # {} /\ trace_skel # {}
              /\ strokes_mm # <<>>
              /\ \A i \in 1 .. Len(strokes_mm) : Len(strokes_mm[i]) >= 2)

\* a skeleton of several pixels whose segments were all shorter than
\* min_stroke_mm, so that the call raised after tracing
PipelineNeverPartialWitness ==
    /\ pc = "raised"
    /\ raised = "strokes"
    /\ trace_mode = "segments"
    /\ min_stroke > 0
    /\ Cardinality(trace_skel) >= 2
    /\ pix_strokes # <<>>

(***************************************************************************)
(* The sample masks                                                        *)
(***************************************************************************)
\* the first and last point of stroke q lie within 0.3 mm of (1, 10) and
\* (6, 1), at 10 pixels per mm and in half pixels: 1 mm is 20, 0.3 mm is 6
EndsNearL(q, o) ==
    LET a == q[1]
        b == q[Len(q)]
        top == <<2 * o + 20, 2 * o + 200>>
        right == <<2 * o + 120, 2 * o + 20>>
    IN  \/ dist2(a, top) <= 36 /\ dist2(b, right) <= 36
        \/ dist2(a, right) <= 36 /\ dist2(b, top) <= 36

EndpointPixels == {p \in trace_skel : skeleton_degrees(trace_skel, p) = 1}
JunctionPixels == {p \in trace_skel : skeleton_degrees(trace_skel, p) >= 3}

\* the steps of stroke q between pixels that are not 8-neighbours
Jumps(q) == {i \in 2 .. Len(q) : dist2(q[i - 1], q[i]) > 8}

\* C15: for the mask of two 3 mm squares 3 mm apart the skeleton has two
\* components, the segment policy returns exactly 2 strokes and the
\* single-walk policy returns exactly 1 stroke with exactly one jump between
\* pixels that are not neighbours.
ScenarioBTwoBlobs ==
    (pc = "traced" /\ IsScenarioB) =>
        /\ NumComponents(trace_skel) = 2
        /\ trace_mode = "segments" => Len(strokes_mm) = 2
        /\ trace_mode = "walk" =>
               Len(strokes_mm) = 1 /\ Cardinality(Jumps(strokes_mm[1])) = 1

\* C16: for the L mask at 0.1 mm per pixel without closing the skeleton has
\* exactly two endpoint pixels and no junction pixel, and the segment policy
\* returns exactly one stroke whose ends lie within 0.3 mm of (1, 10) and
\* (6, 1).
ScenarioAOneBranch ==
    \A o \in Margins :
        (pc = "traced" /\ trace_mode = "segments" /\ IsScenarioA(o)) =>
            /\ Cardinality(EndpointPixels) = 2
            /\ Cardinality(JunctionPixels) = 0
            /\ Len(strokes_mm) = 1
            /\ EndsNearL(strokes_mm[1], o)

(***************************************************************************)
(* Forced orientation and the order of the passes                          *)
(***************************************************************************)
\* the stroke's first point is not to the right of its last point
Oriented(st) == st[1][1] <= st[Len(st)][1]

\* C17: force_left_to_right returns as many strokes as it got, in the same
\* order, each with first x <= last x; a stroke is reversed exactly when its
\* first x exceeds its last x and is otherwise returned as it is.
ForceOrientsEveryStroke ==
    [][(pc = "main_force_lr" /\ args.force_lr) =>
           /\ Len(out_strokes') = Len(out_strokes)
           /\ \A i \in 1 .. Len(out_strokes) :
                  /\ Oriented(out_strokes'[i])
                  /\ out_strokes'[i] =
                         IF out_strokes[i][1][1] > out_strokes[i][Len(out_strokes[i])][1]
                         THEN Reverse(out_strokes[i])
                         ELSE out_strokes[i]]_vars

\* two strokes went through the pass: one drawn right to left came out
\* reversed, one with both ends at the same x came out as it was
ForceOrientsEveryStrokeWitness ==
    /\ pc = "main_optimize_tlbr"
    /\ args.force_lr /\ ~args.optimize_lr
    /\ Len(strokes) = 2
    /\ \E i, j \in 1 .. 2 :
           /\ strokes[i][1][1] > strokes[i][2][1]
           /\ out_strokes[i] = Reverse(strokes[i])
           /\ out_strokes[i] # strokes[i]
           /\ strokes[j][1][1] = strokes[j][2][1]
           /\ strokes[j][1] # strokes[j][2]
           /\ out_strokes[j] = strokes[j]

\* C18: the passes run in the order reorder, force-orient, stitch, bridge:
\* with forced orientation enabled no reordering pass runs after it, so the
\* strokes that reach stitching are all oriented left to right.
NoReorderAfterForce ==
    /\ [][(args.force_lr /\ pc = "main_optimize_tlbr") => (out_strokes' = out_strokes)]_vars
    /\ []((args.force_lr /\ pc = "main_stitch") =>
              \A i \in 1 .. Len(out_strokes) : Oriented(out_strokes[i]))

\* C20: in reorder_strokes_tlbr the cost of entering a remaining stroke at p
\* from the pen position c is |c - p| plus left_penalty times the leftward x
\* displacement plus up_penalty times the upward y displacement, upward meaning
\* that p has a greater y than c; moving right or down adds nothing.
TLBRCostPenalisesUp ==
    (pc = "reorder_loop" /\ policy = "tlbr") =>
        \A i \in 1 .. Len(remaining) :
            \A pt \in {remaining[i][1], remaining[i][Len(remaining[i])]} :
                EntryCost(pt) =
                    <<left_penalty * Max0(cur_pt[1] - pt[1])
                          + up_penalty * Max0(pt[2] - cur_pt[2]),
                      dist2(cur_pt, pt)>>

(***************************************************************************)
(* The serial reader                                                       *)
(***************************************************************************)
AllSpace(t) == \A i \in 1 .. Len(t) : IsSpace(t[i])

\* t is d without its leading and trailing white space, and is not blank
IsStrippedFrom(t, d) ==
    /\ t # <<>>
    /\ ~IsSpace(t[1]) /\ ~IsSpace(t[Len(t)])
    /\ \E i \in 1 .. Len(d) :
           /\ i + Len(t) - 1 <= Len(d)
           /\ SubSeq(d, i, i + Len(t) - 1) = t
           /\ AllSpace(SubSeq(d, 1, i - 1))
           /\ AllSpace(SubSeq(d, i + Len(t), Len(d)))

NotBlank(raw) == ~AllSpace(Decode(raw))

\* C19: _read_line_blocking returns None when no port is open, when the port
\* returns no bytes, or when the line is blank after stripping; otherwise it
\* returns the stripped text, and successive calls return the port's lines in
\* the order the port delivers them.
ReadLineReturnsStrippedLines ==
    /\ [][(ser' = ser /\ ser = "None") => (line' = <<>>)]_vars
    /\ [][(ser' = ser /\ ser = "open" /\ received' = received) => (line' = <<>>)]_vars
    /\ [][(received' # received) =>
              LET raw == received'[Len(received')]
              IN  IF NotBlank(raw)
                  THEN line' # <<>> /\ IsStrippedFrom(line'[1], Decode(raw))
                  ELSE line' = <<>>]_vars
    /\ [](LET nonblank == SelectSeq(received, NotBlank)
          IN  /\ Len(returned) = Len(nonblank)
              /\ \A k \in 1 .. Len(nonblank) : IsStrippedFrom(returned[k], Decode(nonblank[k])))

\* two lines were delivered and returned in order as different texts, the
\* first of them after stripping its line end
ReadLineReturnsStrippedLinesWitness ==
    /\ ser = "open"
    /\ Len(received) = 2
    /\ Len(returned) = 2
    /\ returned[1] # returned[2]
    /\ received[1] # returned[1]
    /\ line = <<returned[2]>>

(***************************************************************************)
(* Single-walk tracing: jumps                                              *)
(***************************************************************************)
\* C21: for every skeleton that is a single 8-connected component, every two
\* consecutive pixels of the stroke the single-walk tracer returns are
\* 8-adjacent.
WalkJumpsOnlyBetweenComponents ==
    (pc = "traced" /\ trace_mode = "walk" /\ NumComponents(trace_skel) = 1
        /\ Len(strokes_mm) = 1) =>
        Jumps(strokes_mm[1]) = {}

(***************************************************************************)
(* Segment tracing                                                         *)
(***************************************************************************)
\* the pixel of a stroke point given in half pixels
PixelOf(pt) == <<(pt[2] - 1) \div 2, (pt[1] - 1) \div 2>>

\* C22: in every stroke returned by _trace_skeleton_to_strokes every pixel
\* other than the stroke's first and last has degree exactly 2, and every two
\* consecutive pixels are 8-adjacent.
SegmentsStopAtJunctions ==
    (pc = "traced" /\ trace_mode = "segments") =>
        \A s \in 1 .. Len(strokes_mm) :
            LET q == strokes_mm[s]
            IN  /\ \A i \in 2 .. Len(q) - 1 :
                       skeleton_degrees(trace_skel, PixelOf(q[i])) = 2
                /\ \A i \in 2 .. Len(q) : Adjacent8(PixelOf(q[i - 1]), PixelOf(q[i]))

\* a skeleton with a junction pixel, traced into several strokes of which one
\* passes through a pixel
SegmentsStopAtJunctionsWitness ==
    /\ pc = "traced"
    /\ trace_mode = "segments"
    /\ JunctionPixels # {}
    /\ Len(strokes_mm) >= 2
    /\ \E s \in 1 .. Len(strokes_mm) :
           /\ Len(strokes_mm[s]) >= 3
           /\ PixelOf(strokes_mm[s][Len(strokes_mm[s])]) \in JunctionPixels

(***************************************************************************)
(* The chamfer distance field                                              *)
(***************************************************************************)
Abs(x) == IF x < 0 THEN -x ELSE x

\* the cheapest path of axis steps (3) and diagonal steps (4) from p to q
ChamferDistance(p, q) ==
    LET a == Abs(p[1] - q[1])
        b == Abs(p[2] - q[2])
    IN  IF a < b THEN 4 * a + 3 * (b - a) ELSE 4 * b + 3 * (a - b)

\* C23: for every mask that has at least one background cell,
\* _distance_transform_chamfer gives every background cell 0 and every
\* foreground cell the minimum over all background cells of the 3-4 chamfer
\* distance.
ChamferIsExact ==
    (pc = "chamfer_done" /\ mask # Cells) =>
        \A p \in Cells :
            IF p \notin mask THEN dist[p] = 0
            ELSE /\ \E q \in Cells \ mask : dist[p] = ChamferDistance(p, q)
                 /\ \A q \in Cells \ mask : dist[p] <= ChamferDistance(p, q)

\* a foreground cell whose nearest background cell lies below it, one
\* diagonal and one axis step away: only the backward pass reaches it
ChamferIsExactWitness ==
    /\ pc = "chamfer_done"
    /\ \E p \in mask :
           /\ dist[p] = 7
           /\ \A q \in Cells \ mask : q[1] > p[1]

(***************************************************************************)
(* Reordering: the greedy choice                                           *)
(***************************************************************************)
\* both endpoints of every stroke of list
EndpointsOf(list) ==
    {list[j][1] : j \in 1 .. Len(list)} \cup {list[j][Len(list[j])] : j \in 1 .. Len(list)}

\* C24: at every step after the start stroke both reorder functions append a
\* stroke whose entry point has minimal cost from the pen position among both
\* endpoints of all remaining strokes, stored reversed exactly when the entry
\* point chosen was its stored last point, and the pen position becomes the
\* appended stroke's last point.
ReorderPicksCheapestEntry ==
    [][(pc = "reorder_loop" /\ remaining # <<>>) =>
          (\E i \in 1 .. Len(remaining) :
               LET st == remaining[i]
                   nxt == ordered'[Len(ordered')]
               IN  /\ ordered' = Append(ordered, nxt)
                   /\ remaining' = RemoveAt(remaining, i)
                   /\ \/ nxt = st /\ nxt[1] = st[1]
                      \/ nxt = Reverse(st) /\ nxt[1] = st[Len(st)]
                   /\ \A e \in EndpointsOf(remaining) :
                          ~CostLess(EntryCost(e), EntryCost(nxt[1]))
                   /\ cur_pt' = nxt[Len(nxt)])]_vars

\* a stroke was appended reversed, chosen among at least two strokes, with a
\* penalty in force
ReorderPicksCheapestEntryWitness ==
    /\ pc = "reorder_loop"
    /\ Len(ordered) >= 2
    /\ remaining # <<>>
    /\ lr_penalty + up_penalty + left_penalty > 0
    /\ LET nxt == ordered[Len(ordered)]
       IN  /\ nxt[1] # nxt[Len(nxt)]
           /\ \A j \in 1 .. Len(strokes) : strokes[j] # nxt
           /\ cur_pt = nxt[Len(nxt)]

(***************************************************************************)
(* Bridging and stitching                                                  *)
(***************************************************************************)
\* C25: for every stroke list S and every threshold t, bridge_strokes(S, t)
\* returns the same list of strokes as stitch_strokes(S, t).
BridgeEqualsStitch ==
    /\ pc = "bridged" => out_strokes = stitch_strokes(strokes, args.bridge_mm)
    /\ pc = "stitched" => out_strokes = bridge_strokes(strokes, stitch_mm)

\* bridging merged two strokes over a gap, two that touch, and kept a third
\* stroke apart
BridgeEqualsStitchWitness ==
    /\ pc = "bridged"
    /\ args.bridge_mm > 0
    /\ Len(out_strokes) >= 2
    /\ \E i \in 1 .. Len(out_strokes) : Len(out_strokes[i]) >= 3
    /\ \E i \in 2 .. Len(strokes) :
           dist2(strokes[i - 1][2], strokes[i][1]) > args.bridge_mm * args.bridge_mm

(***************************************************************************)
(* The command stream                                                      *)
(***************************************************************************)
SamePlace(c, d) == c.x_mm = d.x_mm /\ c.y_mm = d.y_mm

At2(c, p) == c.x_mm = p[1] /\ c.y_mm = p[2]

\* C26: for every stroke with at least two resampled points to_plot_cmds
\* emits in order a pen-up command at the stroke's first point, a pen-down
\* command at that point with the settle dwell, one pen-down command per
\* further point and a pen-up command at the last point; so in the whole
\* stream the pen never goes down at another place than the pen-up command
\* before it, and the stream starts and ends with the pen up.
StrokeCommandsInOrder ==
    /\ [][(pc = "export" /\ si' = si + 1) =>
              LET rs == resample_polyline(out_strokes[si + 1], poly_step_mm)
                  n == Len(rs)
                  b == SubSeq(cmds', Len(cmds) + 1, Len(cmds'))
              IN  /\ SubSeq(cmds', 1, Len(cmds)) = cmds
                  /\ IF n < 2 THEN b = <<>>
                     ELSE /\ Len(b) = n + 2
                          /\ At2(b[1], rs[1]) /\ b[1].pen_down = 0
                          /\ At2(b[2], rs[1]) /\ b[2].pen_down = 1
                          /\ b[2].dwell_ms = pen_settle_ms
                          /\ \A k \in 2 .. n :
                                 /\ At2(b[k + 1], rs[k]) /\ b[k + 1].pen_down = 1
                                 /\ b[k + 1].dwell_ms = segment_dwell_ms
                          /\ At2(b[n + 2], rs[n]) /\ b[n + 2].pen_down = 0]_vars
    /\ [](cmds # <<>> => (cmds[1].pen_down = 0 /\ cmds[Len(cmds)].pen_down = 0))
    /\ [](\A i \in 2 .. Len(cmds) :
              (cmds[i].pen_down = 1 /\ cmds[i - 1].pen_down = 0) =>
                  SamePlace(cmds[i], cmds[i - 1]))
    /\ [](\A i \in 2 .. Len(cmds) :
              ~SamePlace(cmds[i], cmds[i - 1]) =>
                  (cmds[i].pen_down = 0 => cmds[i - 1].pen_down = 0))

\* two strokes were exported, the second starting away from the end of the
\* first, with points added by the resampling and different dwell times
StrokeCommandsInOrderWitness ==
    /\ pc = "exported"
    /\ Len(out_strokes) = 2
    /\ Len(out_strokes[1]) >= 2 /\ Len(out_strokes[2]) >= 2
    /\ out_strokes[1][Len(out_strokes[1])] # out_strokes[2][1]
    /\ poly_step_mm > 0
    /\ pen_settle_ms # segment_dwell_ms
    /\ Len(cmds) > Len(out_strokes[1]) + Len(out_strokes[2]) + 4
    /\ \E i \in 1 .. Len(cmds) : cmds[i].x_mm[2] > 1

(***************************************************************************)
(* Segment tracing: the visited marks                                      *)
(***************************************************************************)
\* the walks made so far: the kept ones and the one under way
RawWalks == IF InWalk THEN Append(pix_strokes, path_nodes) ELSE pix_strokes

\* the positions of walk q without the final point of a closed loop
OpenPositions(q) ==
    IF Len(q) >= 2 /\ q[Len(q)] = q[1] THEN 1 .. Len(q) - 1 ELSE 1 .. Len(q)

\* C27: across all raw walks of one _trace_skeleton_to_strokes call each
\* skeleton pixel occurs in at most one walk and at most once inside it,
\* except that a closed loop repeats its start pixel as its final point.
SegmentsDrawPixelsOnce ==
    (trace_mode = "segments") =>
        \A s \in 1 .. Len(RawWalks), t \in 1 .. Len(RawWalks) :
            \A i \in OpenPositions(RawWalks[s]), j \in OpenPositions(RawWalks[t]) :
                /\ RawWalks[s][i] \in trace_skel
                /\ RawWalks[s][i] = RawWalks[t][j] => (s = t /\ i = j)

\* a closed loop and another walk, traced in one call
SegmentsDrawPixelsOnceWitness ==
    /\ pc = "traced"
    /\ trace_mode = "segments"
    /\ Len(pix_strokes) >= 2
    /\ \E s \in 1 .. Len(pix_strokes) :
           LET q == pix_strokes[s]
           IN  Len(q) >= 4 /\ q[Len(q)] = q[1]

(***************************************************************************)
(* Stitching twice                                                         *)
(***************************************************************************)
\* C28: for every threshold t > 0 and every stroke list S, in
\* stitch_strokes(S, t) the gap from each output stroke's last point to the
\* next output stroke's first point is greater than t, and
\* stitch_strokes(stitch_strokes(S, t), t) equals stitch_strokes(S, t).
StitchIdempotent ==
    (pc = "stitched" /\ stitch_mm > 0) =>
        /\ \A i \in 2 .. Len(out_strokes) :
               dist2(out_strokes[i - 1][Len(out_strokes[i - 1])], out_strokes[i][1])
                   > stitch_mm * stitch_mm
        /\ stitch_strokes(out_strokes, stitch_mm) = out_strokes

\* a stitching that merged strokes over a gap and left others apart
StitchIdempotentWitness ==
    /\ pc = "stitched"
    /\ stitch_mm > 0
    /\ Len(out_strokes) >= 2
    /\ Len(out_strokes) < Len(strokes)
    /\ \E i \in 1 .. Len(out_strokes) : Len(out_strokes[i]) >= 4

(***************************************************************************)
(* The reader threads                                                      *)
(***************************************************************************)
\* C29: after close() returns no reader thread started by that reader is
\* still running, and after any sequence of open() and close() calls at most
\* one reader thread is alive and appending lines.
ReaderStopsWithClose ==
    /\ (call.fn = "idle" /\ call.at = "close") => Alive = {}
    /\ call.fn = "idle" => Cardinality(Alive) <= 1

\* the lines the get_lines calls returned so far, in the order of return
RECURSIVE Returned(_)
Returned(g) == IF g = <<>> THEN <<>> ELSE g[1].out \o Returned(Tail(g))

\* the lines read and not yet appended
Pending == {readers[t].line : t \in {u \in 1 .. Len(readers) : readers[u].at = "append"}}

\* C30: under every interleaving of appends and get_lines calls each buffered
\* line is returned by at most one call, lines are returned in the order they
\* were read, one call returns at most max_lines lines, and no line is lost
\* while the buffer holds no more than 10000 lines.
GetLinesReturnsEachLineOnceInOrder ==
    LET all == Returned(got) \o lines
    IN  /\ \A i, j \in 1 .. Len(all) : i < j => all[i] < all[j]
        /\ \A k \in 1 .. Len(got) : Len(got[k].out) <= got[k].max_lines
        /\ Len(received) <= LinesMaxLen =>
               {all[i] : i \in 1 .. Len(all)} \cup Pending = 1 .. Len(received)

=============================================================================
